---- MODULE Spec2Model ----
(***************************************************************************)
(* A model of the sudoku_rust solver: the Board and CandidateSet value     *)
(* types (src/src/lib.rs), the vectorised validator and mask engine        *)
(* (src/src/simd.rs) and the parallel backtracking search                  *)
(* (src/src/solver.rs).  The branch tasks of Solver::solve are modelled    *)
(* one atomic access to shared state per step; everything a task does on   *)
(* its own clones is computed by the operators below.                      *)
(***************************************************************************)
EXTENDS Integers, Sequences, FiniteSets, TLC

VARIABLES
    arch,             \* the build/CPU variant: "sse2", "neon" or "scalar"
    grid,             \* the Grid handed to Solver::new: [value, solution]
    board,            \* Solver.board
    solution,         \* Solver.solution
    candidates,       \* Solver.candidates
    unique_solution,  \* Solver.unique_solution
    simd_solver,      \* Solver.simd_solver (Option<SimdSolver>)
    cpc,              \* position of the thread that calls solve()
    sel,              \* (row, col) chosen by solve() for the fan-out
    sorted_candidates,\* the digits handed to the parallel iterator
    solution_found,   \* Arc<AtomicBool>
    matches_api,      \* Arc<AtomicBool>
    chan,             \* crossbeam bounded(1) channel, as a sequence
    tpc,              \* position of each branch task
    tboard,           \* board_copy of each branch task
    tret,             \* what each closure returned to find_map_first
    fetch_ret,        \* what fetch_or returned to each task (history)
    sends,            \* the tasks that called send_timeout, in order (history)
    result,           \* what solve() returned: "none", "Ok", "Err"
    retboard,         \* the Vec<Vec<i32>> inside Ok
    vboard,           \* validator harness: the board under validation
    vresults,         \* validator harness: results of the calls so far
    eboard,           \* engine harness: the board SimdSolver::new was given
    engine,           \* engine harness: a SimdSolver
    eclone,           \* engine harness: a clone of the engine
    elast,            \* engine harness: the last call and what it returned
    eupdates,         \* engine harness: number of update_masks calls so far
    calls,            \* number of solve() calls that have returned to the caller
    entry_board,      \* Solver.board as it was when the current call began
    cset,             \* CandidateSet harness: the u16 of one CandidateSet
    clast,            \* CandidateSet harness: the last call on each digit
    cops,             \* CandidateSet harness: number of calls so far
    cache,            \* BOARD_CACHE: the VecDeque<Grid>, front first
    cache_lock,       \* who holds the BOARD_CACHE mutex
    cache_fill,       \* initialize_cache: iterations of its loop done so far
    cache_last,       \* cache harness: the last cache call and its result
    cache_ops,        \* cache harness: number of calls so far
    bpc,              \* run_benchmark: position of the call
    board_count,      \* run_benchmark: argument
    prefetch,         \* run_benchmark: argument
    attempts,         \* prefetch_boards / fetch_multiple_boards: attempts
    max_attempts,     \* prefetch_boards / fetch_multiple_boards: max_attempts
    successful_fetches,\* prefetch_boards: successful_fetches
    boards,           \* run_benchmark: the Vec<Grid> fetched
    solved_boards,    \* run_benchmark: solved_boards
    bnext,            \* run_benchmark: index of the next board to solve
    bevents,          \* run_benchmark: what the call has done so far (history)
    bresult,          \* run_benchmark: what the call returned
    clock,            \* the monotonic clock (Instant::now()), in ticks
    last_request,     \* LAST_REQUEST: the Instant behind the mutex, once set
    fpc,              \* position of each fetch_new_board call
    fnow,             \* fetch_new_board: `now` of each call
    fwake,            \* fetch_new_board: when the sleep of each call ends
    api_requests,     \* when fetch_new_board calls started an API request (history)
    gpc,              \* BoardGenerator::generate: position of the call
    gsolution,        \* generate: `solution`
    gboard,           \* generate: `board`
    gdifficulty,      \* generate: `difficulty`
    remove_count,     \* generate: `remove_count`
    removed,          \* remove_numbers: `removed`
    positions_seen,   \* remove_numbers: the positions iterated so far
    unique_solutions, \* remove_numbers: the HashSet `unique_solutions`
    apc,              \* fetch_from_api: position of the call
    retry,            \* fetch_from_api: `retry`
    api_responses,    \* fetch_from_api: what each request met (history)
    api_ret,          \* fetch_from_api: what the call returned
    api_tasks,        \* the tasks inside api.rs: function, position, counters
    mutex             \* holder of BOARD_CACHE, BOARD_GENERATOR, LAST_REQUEST

validatorVars == << vboard, vresults >>

engineVars == << eboard, engine, eclone, elast, eupdates >>

driverVars == << calls, entry_board >>

csetVars == << cset, clast, cops >>

cacheVars == << cache, cache_lock, cache_fill, cache_last, cache_ops >>

benchVars == << bpc, board_count, prefetch, attempts, max_attempts,
               successful_fetches,
               boards, solved_boards, bnext, bevents, bresult >>

rateVars == << clock, last_request, fpc, fnow, fwake, api_requests >>

genVars == << gpc, gsolution, gboard, gdifficulty, remove_count, removed,
             positions_seen, unique_solutions >>

requestVars == << apc, retry, api_responses, api_ret >>

lockVars == << api_tasks, mutex >>

\* everything outside the Solver and its solve() call
harnessVars == << validatorVars, engineVars, driverVars, csetVars, cacheVars,
                 benchVars, rateVars, genVars, requestVars, lockVars >>

\* what a step of the validator harness leaves alone, and likewise below
outsideValidator ==
    << engineVars, driverVars, csetVars, cacheVars, benchVars,
       rateVars, genVars, requestVars, lockVars >>

outsideEngine ==
    << validatorVars, driverVars, csetVars, cacheVars, benchVars,
       rateVars, genVars, requestVars, lockVars >>

outsideDriver ==
    << validatorVars, engineVars, csetVars, cacheVars, benchVars,
       rateVars, genVars, requestVars, lockVars >>

outsideCset ==
    << validatorVars, engineVars, driverVars, cacheVars, benchVars,
       rateVars, genVars, requestVars, lockVars >>

outsideApi ==
    << validatorVars, engineVars, driverVars, csetVars, rateVars, genVars,
       requestVars, lockVars >>

outsideRate ==
    << validatorVars, engineVars, driverVars, csetVars, benchVars, genVars,
       requestVars, lockVars >>

outsideGen ==
    << validatorVars, engineVars, driverVars, csetVars, cacheVars, benchVars,
       rateVars, requestVars, lockVars >>

outsideRequest ==
    << validatorVars, engineVars, driverVars, csetVars, cacheVars, benchVars,
       rateVars, genVars, lockVars >>

outsideLocks ==
    << validatorVars, engineVars, driverVars, csetVars, cacheVars, benchVars,
       rateVars, genVars, requestVars >>

vars == << arch, grid, board, solution, candidates, unique_solution,
           simd_solver, cpc, sel, sorted_candidates, solution_found,
           matches_api, chan, tpc, tboard, tret, fetch_ret, sends, result,
           retboard, harnessVars >>

solverVars == << grid, board, solution, candidates, unique_solution,
                 simd_solver, cpc, sel, sorted_candidates, solution_found,
                 matches_api, chan, tpc, tboard, tret, fetch_ret, sends,
                 result, retboard >>

-----------------------------------------------------------------------------
(* Bounds of the model.                                                    *)

\* at most this many cells of the base grid are blanked in a puzzle
MaxBlank == 4
\* at most this many calls of validate_solution in the validator harness
MaxValidateCalls == 2
\* at most this many cells of a base board are overwritten before validation
MaxEdits == 1
\* at most this many calls of update_masks in the engine harness
MaxUpdates == 1
\* at most this many further solve() calls on the same Solver
MaxSolveCalls == 1
\* at most this many add_candidate / remove_candidate calls on one set
MaxCandidateOps == 3
\* the capacity of the board cache (CACHE_SIZE, 1000 in api.rs, scaled down)
CacheCapacity == 3
\* the boards initialize_cache generates into an empty cache
\* (LOCAL_GENERATION_THRESHOLD, 100 in api.rs, scaled down)
GenerationThreshold == 2
\* at most this many cache calls in the cache harness
MaxCacheOps == 4
\* run_benchmark is called with a board_count up to this
MaxBoards == 2
\* the clock stops at this many ticks
MaxClock == 4
\* fill_board is followed from the point where all but this many cells, the
\* last ones in row-major order, have been filled
FillFree == 18

-----------------------------------------------------------------------------
(* Integer helpers for the u16 bit sets.                                   *)

Pow2(k) == 2 ^ k

BitAt(x, k) == (x \div Pow2(k)) % 2

RECURSIVE BitAnd(_, _)
BitAnd(a, b) ==
    IF a = 0 \/ b = 0 THEN 0
    ELSE (a % 2) * (b % 2) + 2 * BitAnd(a \div 2, b \div 2)

RECURSIVE BitOr(_, _)
BitOr(a, b) ==
    IF a = 0 THEN b
    ELSE IF b = 0 THEN a
    ELSE (IF a % 2 = 1 \/ b % 2 = 1 THEN 1 ELSE 0)
         + 2 * BitOr(a \div 2, b \div 2)

RECURSIVE count_ones(_)
count_ones(x) == IF x = 0 THEN 0 ELSE (x % 2) + count_ones(x \div 2)

-----------------------------------------------------------------------------
(* CandidateSet (lib.rs): a u16 whose bit n-1 stands for digit n.          *)

CandidateSet_all == 511

CandidateSet_empty == 0

\* faulty variant: the bit of digit n + 1 is cleared (sensitivity of C31)
remove_candidate_next_bit(s, n) == BitAnd(s, 65535 - Pow2(n))

remove_candidate(s, n) == BitAnd(s, 65535 - Pow2(n - 1))

\* faulty variant: the shift is by n, not n - 1 (sensitivity of C17)
add_candidate_unshifted(s, n) == BitOr(s, Pow2(n)) % 65536

\* self.0 |= 1 << (n - 1)
add_candidate(s, n) == BitOr(s, Pow2(n - 1)) % 65536

has_candidate(s, n) == BitAnd(s, Pow2(n - 1)) # 0

count_candidates(s) == count_ones(s)

CandidateSet_is_empty(s) == s = 0

\* (1..=9).filter(has_candidate), collected: ascending
RECURSIVE iter_from(_, _)
iter_from(s, n) ==
    IF n > 9 THEN << >>
    ELSE IF has_candidate(s, n) THEN << n >> \o iter_from(s, n + 1)
    ELSE iter_from(s, n + 1)

iter_candidates(s) == iter_from(s, 1)

-----------------------------------------------------------------------------
(* Board (lib.rs): 81 u8 cells, row-major.                                  *)

\* Board::new: copies grid[i][j] into cells[i*9+j] with an `as u8` cast
Board_new(g) == [k \in 0..80 |-> g[k \div 9][k % 9] % 256]

Board_get(b, row, col) == b[row * 9 + col]

Board_set(b, row, col, value) == [b EXCEPT ![row * 9 + col] = value]

\* faulty variant: row and column exchanged (sensitivity of C3)
to_vec_transposed(b) == [i \in 0..8 |-> [j \in 0..8 |-> b[j * 9 + i]]]

\* Board::to_vec: the 9x9 matrix of the cells
to_vec(b) == [i \in 0..8 |-> [j \in 0..8 |-> Board_get(b, i, j)]]

is_empty_cell(b, row, col) == Board_get(b, row, col) = 0

get_box_index(row, col) == (row \div 3) * 3 + (col \div 3)

-----------------------------------------------------------------------------
(* Feature detection (simd.rs).  "scalar" stands for a target without SSE2 *)
(* or NEON, including an x86 CPU on which the SSE2 probe fails.            *)

has_simd_support == arch # "scalar"

-----------------------------------------------------------------------------
(* SimdBoard and SimdValidator (simd.rs).                                   *)

\* SimdBoard::from_board: eight 16-bit lanes per row plus the ninth element
from_board(b) ==
    [rows          |-> [row \in 0..8 |-> [l \in 0..7 |-> b[row * 9 + l]]],
     last_elements |-> [row \in 0..8 |-> b[row * 9 + 8]]]

\* faulty variant: seen[value] is never set (sensitivity of C9)
seen_sweep_never_marks(v) ==
    \A i \in 0..8 : v[i] # 0 /\ v[i] <= 9

\* the `seen` sweep of the vector path over nine values v[0..8]: false at the
\* first value that is 0, above 9 or already seen
seen_sweep(v) ==
    \A i \in 0..8 :
        /\ v[i] # 0
        /\ v[i] <= 9
        /\ \A j \in 0..(i - 1) : v[j] # v[i]

\* SimdBoard::is_valid_row (SSE2 and NEON read the lanes one by one)
is_valid_row(sb, row) ==
    seen_sweep([i \in 0..8 |->
                  IF i < 8 THEN sb.rows[row][i] ELSE sb.last_elements[row]])

\* the `seen` sweep of the scalar fallback: it has no test for values above 9
\* (cells are 0..9 on every board the solver builds)
seen_sweep_fallback(v) ==
    \A i \in 0..8 :
        /\ v[i] # 0
        /\ \A j \in 0..(i - 1) : v[j] # v[i]

\* faulty variant: the box column is not scaled by 3 (sensitivity of C10)
box_values_unscaled(b, box_row, box_col) ==
    [k \in 0..8 |-> Board_get(b, box_row * 3 + (k \div 3), box_col + (k % 3))]

box_values(b, box_row, box_col) ==
    [k \in 0..8 |-> Board_get(b, box_row * 3 + (k \div 3), box_col * 3 + (k % 3))]

validate_solution_fallback(b) ==
    /\ \A row \in 0..8 :
           seen_sweep_fallback([col \in 0..8 |-> Board_get(b, row, col)])
    /\ \A col \in 0..8 :
           seen_sweep_fallback([row \in 0..8 |-> Board_get(b, row, col)])
    /\ \A box_row \in 0..2 : \A box_col \in 0..2 :
           seen_sweep_fallback(box_values(b, box_row, box_col))

\* faulty variant: only the zero test of the sweeps is made, on either path
\* (sensitivity of C1)
validate_solution_zero_test_only(b) ==
    \A row \in 0..8 : \A col \in 0..8 : Board_get(b, row, col) # 0

\* the branch of validate_solution taken when has_simd_support() is true
validate_solution_simd(b) ==
    LET simd_board == from_board(b) IN
    /\ \A row \in 0..8 : is_valid_row(simd_board, row)
    /\ \A col \in 0..8 :
           seen_sweep([row \in 0..8 |-> Board_get(b, row, col)])
    /\ \A box_row \in 0..2 : \A box_col \in 0..2 :
           seen_sweep(box_values(b, box_row, box_col))

validate_solution(b) ==
    IF has_simd_support
    THEN validate_solution_simd(b)
    ELSE validate_solution_fallback(b)

\* How a call ends on a board whose cells may hold any u8 (a release build:
\* the debug_assert of Board::new and Board::set is compiled out).  The
\* vector branch tests value > 9 before it indexes seen[], so it always
\* returns; the fallback indexes seen[num] (ten slots) right after the zero
\* test, so the first cell above 9 it reaches is an index out of bounds.
validate_solution_simd_outcome(b) ==
    IF validate_solution_simd(b) THEN "true" ELSE "false"

\* one `seen` loop of the fallback over nine values, stopped at the first
\* value that is 0 (false), above 9 (panic) or already seen (false)
sweep_fallback_outcome(v) ==
    LET stop == { i \in 0..8 : \/ v[i] = 0
                               \/ v[i] > 9
                               \/ \E j \in 0..(i - 1) : v[j] = v[i] } IN
    IF stop = {} THEN "true"
    ELSE LET i == CHOOSE x \in stop : \A y \in stop : x <= y IN
         IF v[i] # 0 /\ v[i] > 9 THEN "panic" ELSE "false"

\* the 27 loops of the fallback in the order the code runs them: rows,
\* columns, then boxes by box_row and box_col
fallback_unit(b, u) ==
    IF u < 9 THEN [col \in 0..8 |-> Board_get(b, u, col)]
    ELSE IF u < 18 THEN [row \in 0..8 |-> Board_get(b, row, u - 9)]
    ELSE box_values(b, (u - 18) \div 3, (u - 18) % 3)

validate_solution_fallback_outcome(b) ==
    LET out == [u \in 0..26 |-> sweep_fallback_outcome(fallback_unit(b, u))]
        stop == { u \in 0..26 : out[u] # "true" } IN
    IF stop = {} THEN "true"
    ELSE out[CHOOSE x \in stop : \A y \in stop : x <= y]

-----------------------------------------------------------------------------
(* SimdSolver, the mask engine (simd.rs).  A mask is a vector of eight     *)
(* 16-bit lanes; the engine holds nine row, column and box masks.          *)

ZeroVec == [l \in 0..7 |-> 0]

NoSimdSolver ==
    [some      |-> FALSE,
     row_masks |-> [u \in 0..8 |-> ZeroVec],
     col_masks |-> [u \in 0..8 |-> ZeroVec],
     box_masks |-> [u \in 0..8 |-> ZeroVec]]

\* x86: data[pos.min(7)] |= 1 << (value - 1) over the nine cells of a unit
sse2_unit(vals) ==
    [l \in 0..7 |->
        IF l < 7
        THEN (IF vals[l] # 0 THEN Pow2(vals[l] - 1) ELSE 0)
        ELSE BitOr(IF vals[7] # 0 THEN Pow2(vals[7] - 1) ELSE 0,
                   IF vals[8] # 0 THEN Pow2(vals[8] - 1) ELSE 0)]

\* aarch64: data[pos] = 1 << (value - 1) for the first eight cells, then the
\* ninth cell, when not empty, is written into lane 7 with vsetq_lane_u16
neon_unit(vals) ==
    [l \in 0..7 |->
        IF l = 7 /\ vals[8] # 0 THEN Pow2(vals[8] - 1)
        ELSE IF vals[l] # 0 THEN Pow2(vals[l] - 1) ELSE 0]

\* neither target: mask[pos] = value for the non-empty cells, a [u8; 9]
scalar_unit(vals) == [p \in 0..8 |-> vals[p]]

unit_mask(vals) ==
    IF arch = "sse2" THEN sse2_unit(vals)
    ELSE IF arch = "neon" THEN neon_unit(vals)
    ELSE scalar_unit(vals)

\* SimdSolver::new
SimdSolver_new(b) ==
    [some      |-> TRUE,
     row_masks |-> [row \in 0..8 |->
                      unit_mask([col \in 0..8 |-> Board_get(b, row, col)])],
     col_masks |-> [col \in 0..8 |->
                      unit_mask([row \in 0..8 |-> Board_get(b, row, col)])],
     box_masks |-> [box_idx \in 0..8 |->
                      unit_mask(box_values(b, box_idx \div 3, box_idx % 3))]]

\* _mm_movemask_epi8(v) != 0: some byte of the vector has its top bit set
movemask_nonzero(v) == \E l \in 0..7 : BitAt(v[l], 7) = 1 \/ BitAt(v[l], 15) = 1

\* vmaxvq_u16(v) != 0: some lane is not zero
maxv_nonzero(v) == \E l \in 0..7 : v[l] # 0

\* lane & (1 << (value - 1)) and lane | (1 << (value - 1)): the mask operand
\* of the engine always has the single bit value - 1 set
and_value(lane, value) == BitAt(lane, value - 1) * Pow2(value - 1)

or_value(lane, value) ==
    IF BitAt(lane, value - 1) = 1 THEN lane ELSE lane + Pow2(value - 1)

\* mask & set1(1 << (value - 1)), tested the way each target tests it
unit_has(mask, value) ==
    LET check == [l \in 0..7 |-> and_value(mask[l], value)] IN
    IF arch = "sse2" THEN movemask_nonzero(check) ELSE maxv_nonzero(check)

\* neither target: mask.contains(&value)
scalar_has(mask, value) == \E p \in 0..8 : mask[p] = value

\* SimdSolver::is_valid_candidate
is_valid_candidate(ss, row, col, value) ==
    /\ ~ (arch = "neon" /\ value = 0)
    /\ IF arch = "scalar"
       THEN /\ ~ scalar_has(ss.row_masks[row], value)
            /\ ~ scalar_has(ss.col_masks[col], value)
            /\ ~ scalar_has(ss.box_masks[get_box_index(row, col)], value)
       ELSE /\ ~ unit_has(ss.row_masks[row], value)
            /\ ~ unit_has(ss.col_masks[col], value)
            /\ ~ unit_has(ss.box_masks[get_box_index(row, col)], value)

or_vec(mask, value) == [l \in 0..7 |-> or_value(mask[l], value)]

\* SimdSolver::update_masks
update_masks(ss, row, col, value) ==
    IF arch = "neon" /\ value = 0 THEN ss
    ELSE IF arch = "scalar"
    THEN [ss EXCEPT
            !.row_masks[row][col] = value,
            !.col_masks[col][row] = value,
            !.box_masks[get_box_index(row, col)][(row % 3) * 3 + (col % 3)] = value]
    ELSE [ss EXCEPT
            !.row_masks[row] = or_vec(@, value),
            !.col_masks[col] = or_vec(@, value),
            !.box_masks[get_box_index(row, col)] = or_vec(@, value)]

-----------------------------------------------------------------------------
(* Solver (solver.rs): construction and the cell selector.                 *)

\* faulty variant: the box origin is row / 3, col / 3 (sensitivity of C2)
is_valid_placement_box_origin(b, row, col, num) ==
    /\ \A j \in 0..8 : b[row * 9 + j] # num
    /\ \A i \in 0..8 : b[i * 9 + col] # num
    /\ \A i \in 0..2 : \A j \in 0..2 :
           b[((row \div 3) + i) * 9 + (col \div 3) + j] # num

\* Solver::is_valid_placement: num occurs nowhere in the row, column and box
is_valid_placement(b, row, col, num) ==
    /\ \A j \in 0..8 : Board_get(b, row, j) # num
    /\ \A i \in 0..8 : Board_get(b, i, col) # num
    /\ LET box_row == (row \div 3) * 3
           box_col == (col \div 3) * 3
       IN \A i \in 0..2 : \A j \in 0..2 :
              Board_get(b, box_row + i, box_col + j) # num

\* the inner loop of precompute_candidates: for num in 1..=9
RECURSIVE cell_candidates(_, _, _, _, _)
cell_candidates(b, row, col, num, acc) ==
    IF num > 9 THEN acc
    ELSE cell_candidates(b, row, col, num + 1,
            IF is_valid_placement(b, row, col, num) THEN acc
            ELSE remove_candidate(acc, num))

\* faulty variant: no candidate is removed from an empty cell's set
\* (sensitivity of C30)
precompute_candidates_unpruned(b) ==
    [k \in 0..80 |->
        IF is_empty_cell(b, k \div 9, k % 9)
        THEN CandidateSet_all
        ELSE CandidateSet_empty]

\* Solver::precompute_candidates, applied to vec![CandidateSet::empty(); 81]
precompute_candidates(b) ==
    [k \in 0..80 |->
        IF is_empty_cell(b, k \div 9, k % 9)
        THEN cell_candidates(b, k \div 9, k % 9, 1, CandidateSet_all)
        ELSE CandidateSet_empty]

\* Solver::calculate_impact: row peers, column peers, then box peers
calculate_impact(b, cand, row, col) ==
    LET mine == cand[row * 9 + col]
        peer(r, c) == IF is_empty_cell(b, r, c)
                      THEN count_ones(BitAnd(mine, cand[r * 9 + c]))
                      ELSE 0
        RECURSIVE row_sum(_)
        row_sum(j) == IF j > 8 THEN 0
                      ELSE (IF j # col THEN peer(row, j) ELSE 0) + row_sum(j + 1)
        RECURSIVE col_sum(_)
        col_sum(i) == IF i > 8 THEN 0
                      ELSE (IF i # row THEN peer(i, col) ELSE 0) + col_sum(i + 1)
        box_row == (row \div 3) * 3
        box_col == (col \div 3) * 3
        RECURSIVE box_sum(_)
        box_sum(k) ==
            IF k > 8 THEN 0
            ELSE LET r == box_row + (k \div 3)
                     c == box_col + (k % 3)
                 IN (IF r # row \/ c # col THEN peer(r, c) ELSE 0)
                    + box_sum(k + 1)
    IN row_sum(0) + col_sum(0) + box_sum(0)

\* the cells of `for row in 0..9 { for col in 0..9 { if is_empty_cell ...`:
\* the loops of find_empty_cells do nothing at a filled cell, so each is a
\* walk over the empty cells in row-major order
RECURSIVE ascending(_)
ascending(S) ==
    IF S = {} THEN << >>
    ELSE LET m == CHOOSE x \in S : \A y \in S : x <= y
         IN << << m \div 9, m % 9 >> >> \o ascending(S \ {m})

all_empty_cells(b) ==
    ascending({k \in 0..80 : is_empty_cell(b, k \div 9, k % 9)})

\* first pass of find_empty_cells: [min_candidates, max_impact]
RECURSIVE first_pass(_, _, _, _, _)
first_pass(b, cand, cells, min_candidates, max_impact) ==
    IF cells = << >> THEN [min_candidates |-> min_candidates,
                           max_impact     |-> max_impact]
    ELSE LET row == Head(cells)[1]
             col == Head(cells)[2]
             count == count_candidates(cand[row * 9 + col])
         IN IF count < min_candidates
            THEN first_pass(b, cand, Tail(cells), count,
                            calculate_impact(b, cand, row, col))
            ELSE IF count = min_candidates
            THEN LET impact == calculate_impact(b, cand, row, col)
                 IN first_pass(b, cand, Tail(cells), min_candidates,
                               IF impact > max_impact THEN impact
                               ELSE max_impact)
            ELSE first_pass(b, cand, Tail(cells), min_candidates, max_impact)

\* second pass: the empty cells with the minimum count and the maximum impact
RECURSIVE second_pass(_, _, _, _, _)
second_pass(b, cand, cells, min_candidates, max_impact) ==
    IF cells = << >> THEN << >>
    ELSE LET row == Head(cells)[1]
             col == Head(cells)[2]
         IN IF /\ count_candidates(cand[row * 9 + col]) = min_candidates
               /\ calculate_impact(b, cand, row, col) >= max_impact
            THEN << Head(cells) >>
                 \o second_pass(b, cand, Tail(cells), min_candidates, max_impact)
            ELSE second_pass(b, cand, Tail(cells), min_candidates, max_impact)

\* faulty variant: every empty cell is returned, as by the fallback loop
\* (sensitivity of C28)
find_empty_cells_unfiltered(b, cand) == all_empty_cells(b)

\* Solver::find_empty_cells
find_empty_cells(b, cand) ==
    LET empty == all_empty_cells(b)
        fp == first_pass(b, cand, empty, 10, 0)
        cells == second_pass(b, cand, empty, fp.min_candidates, fp.max_impact)
    IN IF cells = << >> THEN empty ELSE cells

\* Vec::sort_by_key: a stable sort; insert(x, s) puts x after every element
\* of the sorted s whose key is not greater than its own
RECURSIVE insert_by_key(_, _, _)
insert_by_key(x, s, key) ==
    IF s = << >> THEN << x >>
    ELSE IF key[x] < key[Head(s)] THEN << x >> \o s
    ELSE << Head(s) >> \o insert_by_key(x, Tail(s), key)

RECURSIVE sort_by_key(_, _)
sort_by_key(s, key) ==
    IF s = << >> THEN << >>
    ELSE insert_by_key(s[Len(s)], sort_by_key(SubSeq(s, 1, Len(s) - 1), key), key)

\* the candidate order of solve(): the key closure sets num on a copy of the
\* board and then reads calculate_impact of the solver's own board
solve_order(b, cand, row, col) ==
    sort_by_key(iter_candidates(cand[row * 9 + col]),
                [num \in 1..9 |-> calculate_impact(b, cand, row, col)])

-----------------------------------------------------------------------------
(* Solver (solver.rs): the sequential depth-first search of one branch.    *)

NoCell == [some |-> FALSE, row |-> 0, col |-> 0]

\* Solver::find_next_empty: the first empty cell in row-major order
find_next_empty(b) ==
    LET E == {k \in 0..80 : b[k] = 0} IN
    IF E = {} THEN NoCell
    ELSE LET m == CHOOSE x \in E : \A y \in E : x <= y
         IN [some |-> TRUE, row |-> m \div 9, col |-> m % 9]

\* Solver::is_valid_solution
is_valid_solution(b) == validate_solution(b)

\* the legality test of try_solve_with_value: the mask engine when the solver
\* has one, the scan of the board otherwise
is_valid(b, ss, row, col, num) ==
    IF ss.some THEN is_valid_candidate(ss, row, col, num)
    ELSE is_valid_placement(b, row, col, num)

\* Solver::try_solve_with_value on (board, simd_solver): [ok, board], board
\* being the caller's board after the call.  try_nums is its `for num in 1..=9`.
RECURSIVE try_solve_with_value(_, _, _, _, _)
RECURSIVE try_nums(_, _, _, _, _)
try_solve_with_value(start_row, start_col, value, b, ss) ==
    LET b1 == Board_set(b, start_row, start_col, value)
        s1 == IF ss.some THEN update_masks(ss, start_row, start_col, value)
              ELSE ss
        next == find_next_empty(b1)
    IN IF next.some
       THEN try_nums(1, next.row, next.col, b1, s1)
       ELSE [ok |-> is_valid_solution(b1), board |-> b1]

\* faulty variant: the digits are tried from 9 down to 1 (sensitivity of C25)
RECURSIVE try_nums_descending(_, _, _, _, _)
try_nums_descending(num, next_row, next_col, b, ss) ==
    IF num > 9 THEN [ok |-> FALSE, board |-> b]
    ELSE IF is_valid(b, ss, next_row, next_col, 10 - num)
    THEN LET r == CHOOSE x \in { try_solve_with_value(next_row, next_col,
                                                       10 - num, b, ss) } : TRUE
         IN IF r.ok THEN r
            ELSE try_nums_descending(num + 1, next_row, next_col, b, ss)
    ELSE try_nums_descending(num + 1, next_row, next_col, b, ss)

try_nums(num, next_row, next_col, b, ss) ==
    IF num > 9 THEN [ok |-> FALSE, board |-> b]
    ELSE IF is_valid(b, ss, next_row, next_col, num)
    THEN LET r == CHOOSE x \in { try_solve_with_value(next_row, next_col,
                                                       num, b, ss) } : TRUE
         IN IF r.ok THEN r
            ELSE try_nums(num + 1, next_row, next_col, b, ss)
    ELSE try_nums(num + 1, next_row, next_col, b, ss)

-----------------------------------------------------------------------------
(* The inputs: grids built from the solved grid of the solver's tests.     *)

Archs == {"sse2", "neon", "scalar"}

\* the reference solution of test_solver_with_valid_board
SolvedRows ==
    << << 5,3,4,6,7,8,9,1,2 >>,
       << 6,7,2,1,9,5,3,4,8 >>,
       << 1,9,8,3,4,2,5,6,7 >>,
       << 8,5,9,7,6,1,4,2,3 >>,
       << 4,2,6,8,5,3,7,9,1 >>,
       << 7,1,3,9,2,4,8,5,6 >>,
       << 9,6,1,5,3,7,2,8,4 >>,
       << 2,8,7,4,1,9,6,3,5 >>,
       << 3,4,5,2,8,6,1,7,9 >> >>

Solved == [i \in 0..8 |-> [j \in 0..8 |-> SolvedRows[i + 1][j + 1]]]

\* Solved with the digits 4 and 8 exchanged in rows 1, 6 and columns 7, 8:
\* the second completion of a puzzle that leaves those four cells empty
SolvedAlt ==
    [Solved EXCEPT ![1][7] = 8, ![1][8] = 4, ![6][7] = 4, ![6][8] = 8]

\* the cells a puzzle may leave empty: the cell of test_almost_complete_board
\* and the four cells in which Solved and SolvedAlt differ
BlankCells == { << 0, 8 >>, << 1, 7 >>, << 1, 8 >>, << 6, 7 >>, << 6, 8 >> }

\* overwritten fixed digits: none; a second 5 in row 0 (test_invalid_board);
\* a 4 at (1,8), which is a duplicate unless the other 4s around it are blank
Overwrites == { << >>, << 0, 1, 5 >>, << 1, 8, 4 >> }

Puzzle(blanks, ow) ==
    [i \in 0..8 |-> [j \in 0..8 |->
        IF << i, j >> \in blanks THEN 0
        ELSE IF ow # << >> /\ ow[1] = i /\ ow[2] = j THEN ow[3]
        ELSE Solved[i][j]]]

References == { Solved, SolvedAlt }

-----------------------------------------------------------------------------
(* Solver::new and the observers.                                          *)

Tasks == DOMAIN tpc

\* the state Solver::new(grid) leaves behind, on the given target
Solver_new(a, g) ==
    /\ arch = a
    /\ grid = g
    /\ board = Board_new(g.value)
    /\ solution = Board_new(g.solution)
    /\ candidates = precompute_candidates(Board_new(g.value))
    /\ unique_solution = TRUE
    /\ simd_solver = IF has_simd_support
                     THEN SimdSolver_new(Board_new(g.value))
                     ELSE NoSimdSolver
    /\ cpc = "idle"
    /\ sel = << 0, 0 >>
    /\ sorted_candidates = << >>
    /\ solution_found = FALSE
    /\ matches_api = FALSE
    /\ chan = << >>
    /\ tpc = << >>
    /\ tboard = << >>
    /\ tret = << >>
    /\ fetch_ret = << >>
    /\ sends = << >>
    /\ result = "none"
    /\ retboard = << >>

\* no validator call and no engine outside the solver
ValidatorIdle == vboard = << >> /\ vresults = << >>

EngineIdle ==
    /\ eboard = << >>
    /\ engine = NoSimdSolver
    /\ eclone = NoSimdSolver
    /\ elast = [op |-> "none"]
    /\ eupdates = 0

\* no solve() call has returned yet
DriverIdle == calls = 0 /\ entry_board = board

CandidatesIdle == cset = 0 /\ clast = << >> /\ cops = 0

CacheIdle ==
    /\ cache = << >>
    /\ cache_lock = "free"
    /\ cache_fill = 0
    /\ cache_last = [op |-> "none"]
    /\ cache_ops = 0

BenchIdle ==
    /\ bpc = "idle"
    /\ board_count = 0
    /\ prefetch = FALSE
    /\ attempts = 0
    /\ max_attempts = 0
    /\ successful_fetches = 0
    /\ boards = << >>
    /\ solved_boards = 0
    /\ bnext = 1
    /\ bevents = {}
    /\ bresult = "none"

\* no fetch_new_board call; LAST_REQUEST not yet initialised
RateIdle ==
    /\ clock = 0
    /\ last_request = [init |-> FALSE]
    /\ fpc = << >>
    /\ fnow = << >>
    /\ fwake = << >>
    /\ api_requests = << >>

GeneratorIdle ==
    /\ gpc = "idle"
    /\ gsolution = << >>
    /\ gboard = << >>
    /\ gdifficulty = ""
    /\ remove_count = 0
    /\ removed = 0
    /\ positions_seen = << >>
    /\ unique_solutions = {}

\* no fetch_from_api call
RequestIdle ==
    /\ apc = "idle"
    /\ retry = 0
    /\ api_responses = << >>
    /\ api_ret = [ret |-> "none"]

\* no task inside api.rs; the three mutexes are free
LocksIdle ==
    /\ api_tasks = << >>
    /\ mutex = [m \in { "BOARD_CACHE", "BOARD_GENERATOR", "LAST_REQUEST" }
                  |-> 0]

\* a Solver that stands by while a harness runs
SolverIdle(a) == Solver_new(a, [value |-> Solved, solution |-> Solved])

Init ==
    /\ \E a \in Archs, blanks \in SUBSET BlankCells, ow \in Overwrites,
          ref \in References :
          /\ Cardinality(blanks) <= MaxBlank
          /\ Solver_new(a, [value |-> Puzzle(blanks, ow), solution |-> ref])
    /\ ValidatorIdle
    /\ EngineIdle
    /\ DriverIdle
    /\ CandidatesIdle
    /\ CacheIdle
    /\ BenchIdle
    /\ RateIdle
    /\ GeneratorIdle
    /\ RequestIdle
    /\ LocksIdle

verify_solution == board = solution

has_unique_solution == unique_solution

get_solution == to_vec(board)

get_original_solution == to_vec(solution)

-----------------------------------------------------------------------------
(* Solver::solve.  The calling thread runs Solve_Begin up to the fan-out,  *)
(* the branch tasks run TaskStart .. TaskSend, and Solve_Join is the       *)
(* calling thread once find_map_first has returned.                        *)

\* faulty variant: every call starts by clearing unique_solution
\* (sensitivity of C34)
Solve_Begin_clears_unique ==
    /\ cpc = "idle"
    /\ \E empty_cells \in { find_empty_cells(board, candidates) } :
       IF empty_cells = << >>
       THEN /\ cpc' = "returned"
            /\ IF ~ validate_solution(board)
               THEN result' = "Err" /\ retboard' = << >>
               ELSE result' = "Ok" /\ retboard' = to_vec(board)
            /\ UNCHANGED << sel, sorted_candidates, tpc, tboard, tret,
                            fetch_ret >>
       ELSE LET row == empty_cells[1][1]
                col == empty_cells[1][2]
            IN IF CandidateSet_is_empty(candidates[row * 9 + col])
               THEN /\ cpc' = "returned"
                    /\ result' = "Err"
                    /\ UNCHANGED << retboard, sel, sorted_candidates, tpc,
                                    tboard, tret, fetch_ret >>
               ELSE \E sc \in { solve_order(board, candidates, row, col) } :
                    /\ cpc' = "fanout"
                    /\ sel' = << row, col >>
                    /\ sorted_candidates' = sc
                    /\ tpc' = [t \in 1..Len(sc) |-> "pending"]
                    /\ tboard' = [t \in 1..Len(sc) |-> board]
                    /\ tret' = [t \in 1..Len(sc) |-> "pending"]
                    /\ fetch_ret' = [t \in 1..Len(sc) |-> "none"]
                    /\ UNCHANGED << result, retboard >>
    /\ solution_found' = FALSE
    /\ matches_api' = FALSE
    /\ chan' = << >>
    /\ sends' = << >>
    /\ unique_solution' = FALSE
    /\ UNCHANGED << arch, grid, board, solution, candidates, simd_solver,
                    harnessVars >>

Solve_Begin ==
    /\ cpc = "idle"
    /\ \E empty_cells \in { find_empty_cells(board, candidates) } :
       IF empty_cells = << >>
       THEN /\ cpc' = "returned"
            /\ IF ~ validate_solution(board)
               THEN result' = "Err" /\ retboard' = << >>
               ELSE result' = "Ok" /\ retboard' = to_vec(board)
            /\ UNCHANGED << sel, sorted_candidates, tpc, tboard, tret,
                            fetch_ret >>
       ELSE LET row == empty_cells[1][1]
                col == empty_cells[1][2]
            IN IF CandidateSet_is_empty(candidates[row * 9 + col])
               THEN /\ cpc' = "returned"
                    /\ result' = "Err"
                    /\ UNCHANGED << retboard, sel, sorted_candidates, tpc,
                                    tboard, tret, fetch_ret >>
               ELSE \E sc \in { solve_order(board, candidates, row, col) } :
                    /\ cpc' = "fanout"
                    /\ sel' = << row, col >>
                    /\ sorted_candidates' = sc
                    /\ tpc' = [t \in 1..Len(sc) |-> "pending"]
                    /\ tboard' = [t \in 1..Len(sc) |-> board]
                    /\ tret' = [t \in 1..Len(sc) |-> "pending"]
                    /\ fetch_ret' = [t \in 1..Len(sc) |-> "none"]
                    /\ UNCHANGED << result, retboard >>
    /\ solution_found' = FALSE
    /\ matches_api' = FALSE
    /\ chan' = << >>
    /\ sends' = << >>
    /\ UNCHANGED << arch, grid, board, solution, candidates, unique_solution,
                    simd_solver, harnessVars >>

\* the closure is entered: solution_found.load().  (An item that rayon skips
\* because an earlier item returned Some ends like a task that reads true.)
TaskStart(t) ==
    /\ cpc = "fanout"
    /\ tpc[t] = "pending"
    /\ IF solution_found
       THEN tpc' = [tpc EXCEPT ![t] = "done"] /\ tret' = [tret EXCEPT ![t] = "None"]
       ELSE tpc' = [tpc EXCEPT ![t] = "running"] /\ tret' = tret
    /\ UNCHANGED << arch, grid, board, solution, candidates, unique_solution,
                    simd_solver, cpc, sel, sorted_candidates, solution_found,
                    matches_api, chan, tboard, fetch_ret, sends, result,
                    retboard, harnessVars >>

\* faulty variant: a completed board that differs from the reference is
\* dropped by the task (sensitivity of C16)
TaskSolve_reference_only(t) ==
    /\ tpc[t] = "running"
    /\ \E r \in { try_solve_with_value(sel[1], sel[2], sorted_candidates[t],
                                        board, simd_solver) } :
          /\ tboard' = [tboard EXCEPT ![t] = r.board]
          /\ IF r.ok /\ r.board = solution
             THEN /\ matches_api' = TRUE
                  /\ tpc' = [tpc EXCEPT ![t] = "solved"]
                  /\ tret' = tret
             ELSE /\ matches_api' = matches_api
                  /\ tpc' = [tpc EXCEPT ![t] = "done"]
                  /\ tret' = [tret EXCEPT ![t] = "None"]
    /\ UNCHANGED << arch, grid, board, solution, candidates, unique_solution,
                    simd_solver, cpc, sel, sorted_candidates, solution_found,
                    chan, fetch_ret, sends, result, retboard, harnessVars >>

\* faulty variant: the search runs on the solver's own board instead of the
\* task's clone (sensitivity of C27)
TaskSolve_on_shared_board(t) ==
    /\ tpc[t] = "running"
    /\ \E r \in { try_solve_with_value(sel[1], sel[2], sorted_candidates[t],
                                        board, simd_solver) } :
          /\ tboard' = [tboard EXCEPT ![t] = r.board]
          /\ board' = r.board
          /\ IF r.ok
             THEN /\ matches_api' = (matches_api \/ r.board = solution)
                  /\ tpc' = [tpc EXCEPT ![t] = "solved"]
                  /\ tret' = tret
             ELSE /\ matches_api' = matches_api
                  /\ tpc' = [tpc EXCEPT ![t] = "done"]
                  /\ tret' = [tret EXCEPT ![t] = "None"]
    /\ UNCHANGED << arch, grid, solution, candidates, unique_solution,
                    simd_solver, cpc, sel, sorted_candidates, solution_found,
                    chan, fetch_ret, sends, result, retboard, harnessVars >>

\* the search on the task's clones, then matches_api.store(true) when the
\* completed board equals the reference
TaskSolve(t) ==
    /\ tpc[t] = "running"
    /\ \E r \in { try_solve_with_value(sel[1], sel[2], sorted_candidates[t],
                                        board, simd_solver) } :
          /\ tboard' = [tboard EXCEPT ![t] = r.board]
          /\ IF r.ok
             THEN /\ matches_api' = (matches_api \/ r.board = solution)
                  /\ tpc' = [tpc EXCEPT ![t] = "solved"]
                  /\ tret' = tret
             ELSE /\ matches_api' = matches_api
                  /\ tpc' = [tpc EXCEPT ![t] = "done"]
                  /\ tret' = [tret EXCEPT ![t] = "None"]
    /\ UNCHANGED << arch, grid, board, solution, candidates, unique_solution,
                    simd_solver, cpc, sel, sorted_candidates, solution_found,
                    chan, fetch_ret, sends, result, retboard, harnessVars >>

\* faulty variant: solution_found.store(true) in place of the fetch_or, so
\* every task that completes a board goes on to send (sensitivity of C8)
TaskFetchOr_store(t) ==
    /\ tpc[t] = "solved"
    /\ fetch_ret' = [fetch_ret EXCEPT ![t] = "false"]
    /\ solution_found' = TRUE
    /\ tpc' = [tpc EXCEPT ![t] = "won"]
    /\ UNCHANGED << arch, grid, board, solution, candidates, unique_solution,
                    simd_solver, cpc, sel, sorted_candidates, matches_api,
                    chan, tboard, tret, sends, result, retboard, harnessVars >>

\* solution_found.fetch_or(true)
TaskFetchOr(t) ==
    /\ tpc[t] = "solved"
    /\ fetch_ret' = [fetch_ret EXCEPT ![t] = IF solution_found THEN "true"
                                             ELSE "false"]
    /\ solution_found' = TRUE
    /\ IF solution_found
       THEN tpc' = [tpc EXCEPT ![t] = "done"] /\ tret' = [tret EXCEPT ![t] = "None"]
       ELSE tpc' = [tpc EXCEPT ![t] = "won"] /\ tret' = tret
    /\ UNCHANGED << arch, grid, board, solution, candidates, unique_solution,
                    simd_solver, cpc, sel, sorted_candidates, matches_api,
                    chan, tboard, sends, result, retboard, harnessVars >>

\* faulty variant: the send times out and the board is dropped (sensitivity
\* of C26)
TaskSend_timed_out(t) ==
    /\ tpc[t] = "won"
    /\ sends' = Append(sends, t)
    /\ chan' = chan
    /\ tret' = [tret EXCEPT ![t] = "None"]
    /\ tpc' = [tpc EXCEPT ![t] = "done"]
    /\ UNCHANGED << arch, grid, board, solution, candidates, unique_solution,
                    simd_solver, cpc, sel, sorted_candidates, solution_found,
                    matches_api, tboard, fetch_ret, result, retboard, harnessVars >>

\* tx.send_timeout(board_copy, 1 s): the receiver takes nothing before the
\* fan-out is over, so a full channel stays full until the timeout
TaskSend(t) ==
    /\ tpc[t] = "won"
    /\ sends' = Append(sends, t)
    /\ IF Len(chan) < 1
       THEN chan' = Append(chan, tboard[t]) /\ tret' = [tret EXCEPT ![t] = "Some"]
       ELSE chan' = chan /\ tret' = [tret EXCEPT ![t] = "None"]
    /\ tpc' = [tpc EXCEPT ![t] = "done"]
    /\ UNCHANGED << arch, grid, board, solution, candidates, unique_solution,
                    simd_solver, cpc, sel, sorted_candidates, solution_found,
                    matches_api, tboard, fetch_ret, result, retboard, harnessVars >>

\* faulty variant: the result is taken only when matches_api is set
\* (sensitivity of C4)
Solve_Join_on_matches ==
    /\ cpc = "fanout"
    /\ \A t \in Tasks : tpc[t] = "done"
    /\ cpc' = "returned"
    /\ unique_solution' = matches_api
    /\ IF matches_api /\ chan # << >>
       THEN /\ board' = Head(chan)
            /\ chan' = Tail(chan)
            /\ result' = "Ok"
            /\ retboard' = to_vec(Head(chan))
       ELSE /\ result' = "Err"
            /\ UNCHANGED << board, chan, retboard >>
    /\ UNCHANGED << arch, grid, solution, candidates, simd_solver, sel,
                    sorted_candidates, solution_found, matches_api, tpc,
                    tboard, tret, fetch_ret, sends, harnessVars >>

\* faulty variant: the received board is returned but not stored in
\* self.board (sensitivity of C15)
Solve_Join_board_not_stored ==
    /\ cpc = "fanout"
    /\ \A t \in Tasks : tpc[t] = "done"
    /\ cpc' = "returned"
    /\ unique_solution' = matches_api
    /\ IF solution_found
       THEN IF chan # << >>
            THEN /\ board' = board
                 /\ chan' = Tail(chan)
                 /\ result' = "Ok"
                 /\ retboard' = to_vec(Head(chan))
            ELSE /\ result' = "Err"
                 /\ UNCHANGED << board, chan, retboard >>
       ELSE /\ result' = "Err"
            /\ UNCHANGED << board, chan, retboard >>
    /\ UNCHANGED << arch, grid, solution, candidates, simd_solver, sel,
                    sorted_candidates, solution_found, matches_api, tpc,
                    tboard, tret, fetch_ret, sends, harnessVars >>

\* faulty variant: the coordinator waits until every task has sent a board
\* (sensitivity of C32)
Solve_Join_waits_for_boards ==
    /\ cpc = "fanout"
    /\ \A t \in Tasks : tpc[t] = "done" /\ tret[t] = "Some"
    /\ cpc' = "returned"
    /\ unique_solution' = matches_api
    /\ board' = Head(chan)
    /\ chan' = Tail(chan)
    /\ result' = "Ok"
    /\ retboard' = to_vec(Head(chan))
    /\ UNCHANGED << arch, grid, solution, candidates, simd_solver, sel,
                    sorted_candidates, solution_found, matches_api, tpc,
                    tboard, tret, fetch_ret, sends, harnessVars >>

\* faulty variant: when no board was handed over, the board of the first
\* branch is left in self.board (sensitivity of C33)
Solve_Join_keeps_branch_board ==
    /\ cpc = "fanout"
    /\ \A t \in Tasks : tpc[t] = "done"
    /\ cpc' = "returned"
    /\ unique_solution' = matches_api
    /\ IF solution_found /\ chan # << >>
       THEN /\ board' = Head(chan)
            /\ chan' = Tail(chan)
            /\ result' = "Ok"
            /\ retboard' = to_vec(Head(chan))
       ELSE /\ result' = "Err"
            /\ board' = tboard[1]
            /\ UNCHANGED << chan, retboard >>
    /\ UNCHANGED << arch, grid, solution, candidates, simd_solver, sel,
                    sorted_candidates, solution_found, matches_api, tpc,
                    tboard, tret, fetch_ret, sends, harnessVars >>

\* find_map_first has returned: every task is over
Solve_Join ==
    /\ cpc = "fanout"
    /\ \A t \in Tasks : tpc[t] = "done"
    /\ cpc' = "returned"
    /\ unique_solution' = matches_api
    /\ IF solution_found
       THEN IF chan # << >>
            THEN /\ board' = Head(chan)
                 /\ chan' = Tail(chan)
                 /\ result' = "Ok"
                 /\ retboard' = to_vec(Head(chan))
            ELSE /\ result' = "Err"
                 /\ UNCHANGED << board, chan, retboard >>
       ELSE /\ result' = "Err"
            /\ UNCHANGED << board, chan, retboard >>
    /\ UNCHANGED << arch, grid, solution, candidates, simd_solver, sel,
                    sorted_candidates, solution_found, matches_api, tpc,
                    tboard, tret, fetch_ret, sends, harnessVars >>

Next ==
    \/ Solve_Begin
    \/ \E t \in Tasks : TaskStart(t)
    \/ \E t \in Tasks : TaskSolve(t)
    \/ \E t \in Tasks : TaskFetchOr(t)
    \/ \E t \in Tasks : TaskSend(t)
    \/ Solve_Join

Spec == Init /\ [][Next]_vars

-----------------------------------------------------------------------------
(* Repeated calls.  The caller has the result of a solve() call, drops it  *)
(* and calls solve() again on the same Solver: the locals of the finished  *)
(* call are gone, the fields of the Solver are as the call left them.      *)

Solve_Again ==
    /\ cpc = "returned"
    /\ calls < MaxSolveCalls
    /\ calls' = calls + 1
    /\ entry_board' = board
    /\ cpc' = "idle"
    /\ result' = "none"
    /\ retboard' = << >>
    /\ sel' = << 0, 0 >>
    /\ sorted_candidates' = << >>
    /\ tpc' = << >>
    /\ tboard' = << >>
    /\ tret' = << >>
    /\ fetch_ret' = << >>
    /\ UNCHANGED << arch, grid, board, solution, candidates, unique_solution,
                    simd_solver, solution_found, matches_api, chan, sends,
                    outsideDriver >>

NextRepeat ==
    \/ Next
    \/ Solve_Again

SpecRepeat == Init /\ [][NextRepeat]_vars

-----------------------------------------------------------------------------
(* SimdValidator::validate_solution called on its own, as                  *)
(* test_simd_solution_validation does: a board is built with Board::new,   *)
(* some of its cells are overwritten with Board::set, and the validator is *)
(* called on it repeatedly through a shared reference.                     *)

\* swap the values of two cells of a matrix
SwapCells(g, r1, c1, r2, c2) ==
    [g EXCEPT ![r1][c1] = g[r2][c2], ![r2][c2] = g[r1][c1]]

\* the valid board of the test and three boards with exactly one kind of unit
\* broken: rows 0 and 3 exchanged (boxes), two cells of row 0 exchanged
\* inside a box (columns), two cells of column 0 exchanged inside a box (rows)
ValidateBases ==
    { Solved,
      [Solved EXCEPT ![0] = Solved[3], ![3] = Solved[0]],
      SwapCells(Solved, 0, 0, 0, 1),
      SwapCells(Solved, 0, 0, 1, 0) }

\* the cells Board::set overwrites, with any value 0..9
EditCells == { << 0, 0 >>, << 4, 4 >>, << 8, 8 >>, << 2, 7 >> }

RECURSIVE EditedBoards(_, _)
EditedBoards(S, n) ==
    IF n = 0 THEN S
    ELSE EditedBoards(S \cup { Board_set(b, c[1], c[2], v) :
                                   b \in S, c \in EditCells, v \in 0..9 },
                      n - 1)

ValidateBoards ==
    EditedBoards({ Board_new(g) : g \in ValidateBases }, MaxEdits)

InitValidate ==
    /\ \E a \in Archs : SolverIdle(a)
    /\ EngineIdle
    /\ DriverIdle
    /\ CandidatesIdle
    /\ CacheIdle
    /\ BenchIdle
    /\ RateIdle
    /\ GeneratorIdle
    /\ RequestIdle
    /\ LocksIdle
    /\ vboard \in ValidateBoards
    /\ vresults = << >>

\* one call SimdValidator::validate_solution(&board)
Validate ==
    /\ Len(vresults) < MaxValidateCalls
    /\ vresults' = Append(vresults, validate_solution(vboard))
    /\ UNCHANGED << arch, vboard >>
    /\ UNCHANGED << solverVars, outsideValidator >>

NextValidate == Validate

SpecValidate == InitValidate /\ [][NextValidate]_vars

-----------------------------------------------------------------------------
(* The two validation paths side by side, on boards whose cells may hold   *)
(* any u8: each call runs one path on the board and records how it ended.  *)

\* cell values written before the calls: in range, zero, and out of range
WideValues == { 0, 1, 9, 10, 200, 255 }

RECURSIVE WideBoards(_, _)
WideBoards(S, n) ==
    IF n = 0 THEN S
    ELSE WideBoards(S \cup { [b EXCEPT ![c[1] * 9 + c[2]] = v] :
                                 b \in S, c \in EditCells, v \in WideValues },
                    n - 1)

InitPaths ==
    /\ \E a \in Archs : SolverIdle(a)
    /\ EngineIdle
    /\ DriverIdle
    /\ CandidatesIdle
    /\ CacheIdle
    /\ BenchIdle
    /\ RateIdle
    /\ GeneratorIdle
    /\ RequestIdle
    /\ LocksIdle
    /\ vboard \in WideBoards({ Board_new(g) : g \in ValidateBases }, MaxEdits)
    /\ vresults = << >>

\* a call that takes the vector branch (has_simd_support() is true)
CallVector ==
    /\ Len(vresults) < MaxValidateCalls
    /\ vresults' = Append(vresults,
                          [path    |-> "vector",
                           outcome |-> validate_solution_simd_outcome(vboard)])
    /\ UNCHANGED << arch, vboard >>
    /\ UNCHANGED << solverVars, outsideValidator >>

\* a call that ends in validate_solution_fallback
CallFallback ==
    /\ Len(vresults) < MaxValidateCalls
    /\ vresults' = Append(vresults,
                          [path    |-> "fallback",
                           outcome |-> validate_solution_fallback_outcome(vboard)])
    /\ UNCHANGED << arch, vboard >>
    /\ UNCHANGED << solverVars, outsideValidator >>

NextPaths ==
    \/ CallVector
    \/ CallFallback

SpecPaths == InitPaths /\ [][NextPaths]_vars

-----------------------------------------------------------------------------
(* SimdSolver on its own: an engine is built from a board with             *)
(* SimdSolver::new, may be cloned, and the engine and its clone are then   *)
(* updated and queried.  "scalar" is here the SimdSolver of a build for    *)
(* neither x86 nor aarch64.                                                *)

ZeroGrid == [i \in 0..8 |-> [j \in 0..8 |-> 0]]

\* the puzzle of test_solver_with_valid_board
ClassicRows ==
    << << 5,3,0,0,7,0,0,0,0 >>,
       << 6,0,0,1,9,5,0,0,0 >>,
       << 0,9,8,0,0,0,0,6,0 >>,
       << 8,0,0,0,6,0,0,0,3 >>,
       << 4,0,0,8,0,3,0,0,1 >>,
       << 7,0,0,0,2,0,0,0,6 >>,
       << 0,6,0,0,0,0,2,8,0 >>,
       << 0,0,0,4,1,9,0,0,5 >>,
       << 0,0,0,0,8,0,0,7,9 >> >>

Classic == [i \in 0..8 |-> [j \in 0..8 |-> ClassicRows[i + 1][j + 1]]]

EngineBoards ==
    { Board_new(g) : g \in { ZeroGrid, Classic, Solved,
                             Puzzle({ << 1, 7 >>, << 1, 8 >>, << 6, 7 >> },
                                    << >>) } }

\* the cells update_masks is called on and the cell is_valid_candidate is
\* called on; the digit is any of 1..9
UpdateCells == { << 0, 2 >>, << 8, 8 >> }

QueryCells == { << 0, 6 >> }

InitEngine ==
    /\ \E a \in Archs : SolverIdle(a)
    /\ ValidatorIdle
    /\ DriverIdle
    /\ CandidatesIdle
    /\ CacheIdle
    /\ BenchIdle
    /\ RateIdle
    /\ GeneratorIdle
    /\ RequestIdle
    /\ LocksIdle
    /\ eboard \in EngineBoards
    /\ engine = NoSimdSolver
    /\ eclone = NoSimdSolver
    /\ elast = [op |-> "none"]
    /\ eupdates = 0

\* engine = SimdSolver::new(&board)
Engine_new ==
    /\ ~ engine.some
    /\ engine' = SimdSolver_new(eboard)
    /\ elast' = [op |-> "new"]
    /\ UNCHANGED << arch, eboard, eclone, eupdates >>
    /\ UNCHANGED << solverVars, outsideEngine >>

\* clone = engine.clone(): #[derive(Clone)] copies the three mask arrays
Engine_clone ==
    /\ engine.some
    /\ ~ eclone.some
    /\ eclone' = engine
    /\ elast' = [op |-> "clone"]
    /\ UNCHANGED << arch, eboard, engine, eupdates >>
    /\ UNCHANGED << solverVars, outsideEngine >>

\* engine.update_masks(row, col, value): no test of the board or the masks
Engine_update(row, col, value) ==
    /\ engine.some
    /\ eupdates < MaxUpdates
    /\ engine' = update_masks(engine, row, col, value)
    /\ eupdates' = eupdates + 1
    /\ elast' = [op |-> "update_masks", on |-> "engine",
                 row |-> row, col |-> col, value |-> value]
    /\ UNCHANGED << arch, eboard, eclone >>
    /\ UNCHANGED << solverVars, outsideEngine >>

\* faulty variant: the clone shares the source's mask arrays, so an update of
\* the clone lands in the source as well (sensitivity of C14)
Clone_update_shared(row, col, value) ==
    /\ eclone.some
    /\ eupdates < MaxUpdates
    /\ eclone' = update_masks(eclone, row, col, value)
    /\ engine' = update_masks(engine, row, col, value)
    /\ eupdates' = eupdates + 1
    /\ elast' = [op |-> "update_masks", on |-> "clone",
                 row |-> row, col |-> col, value |-> value]
    /\ UNCHANGED << arch, eboard >>
    /\ UNCHANGED << solverVars, outsideEngine >>

\* clone.update_masks(row, col, value)
Clone_update(row, col, value) ==
    /\ eclone.some
    /\ eupdates < MaxUpdates
    /\ eclone' = update_masks(eclone, row, col, value)
    /\ eupdates' = eupdates + 1
    /\ elast' = [op |-> "update_masks", on |-> "clone",
                 row |-> row, col |-> col, value |-> value]
    /\ UNCHANGED << arch, eboard, engine >>
    /\ UNCHANGED << solverVars, outsideEngine >>

\* engine.is_valid_candidate(row, col, value), through &self
Engine_query(row, col, value) ==
    /\ engine.some
    /\ elast.op # "is_valid_candidate"
    /\ elast' = [op |-> "is_valid_candidate", on |-> "engine",
                 row |-> row, col |-> col, value |-> value,
                 answer |-> is_valid_candidate(engine, row, col, value)]
    /\ UNCHANGED << arch, eboard, engine, eclone, eupdates >>
    /\ UNCHANGED << solverVars, outsideEngine >>

\* clone.is_valid_candidate(row, col, value)
Clone_query(row, col, value) ==
    /\ eclone.some
    /\ elast.op # "is_valid_candidate"
    /\ elast' = [op |-> "is_valid_candidate", on |-> "clone",
                 row |-> row, col |-> col, value |-> value,
                 answer |-> is_valid_candidate(eclone, row, col, value)]
    /\ UNCHANGED << arch, eboard, engine, eclone, eupdates >>
    /\ UNCHANGED << solverVars, outsideEngine >>

\* one turn of the `for num in 1..=9` loop of try_solve_with_value, with
\* (eboard, engine) as the caller's board and simd_solver: the attempt runs
\* on board.clone() and simd_solver.clone(), and only a successful attempt
\* is copied back (*board = new_board)
Engine_attempt(num) ==
    LET next == find_next_empty(eboard) IN
    /\ elast.op = "new"
    /\ next.some
    /\ Cardinality({ k \in 0..80 : eboard[k] = 0 }) <= MaxBlank
    /\ is_valid_candidate(engine, next.row, next.col, num)
    /\ LET r == try_solve_with_value(next.row, next.col, num, eboard, engine)
       IN /\ eboard' = IF r.ok THEN r.board ELSE eboard
          /\ elast' = [op |-> "attempt", row |-> next.row, col |-> next.col,
                       value |-> num, ok |-> r.ok]
    /\ UNCHANGED << arch, engine, eclone, eupdates >>
    /\ UNCHANGED << solverVars, outsideEngine >>

NextEngine ==
    \/ Engine_new
    \/ \E num \in 1..9 : Engine_attempt(num)
    \/ Engine_clone
    \/ \E c \in UpdateCells, value \in 1..9 : Engine_update(c[1], c[2], value)
    \/ \E c \in UpdateCells, value \in 1..9 : Clone_update(c[1], c[2], value)
    \/ \E c \in QueryCells, value \in 1..9 : Engine_query(c[1], c[2], value)
    \/ \E c \in QueryCells, value \in 1..9 : Clone_query(c[1], c[2], value)

SpecEngine == InitEngine /\ [][NextEngine]_vars

-----------------------------------------------------------------------------
(* CandidateSet harness: one set built by all() or empty(), then calls of   *)
(* add_candidate and remove_candidate with digits 1..9.                    *)

InitCandidates ==
    /\ \E a \in Archs : SolverIdle(a)
    /\ ValidatorIdle
    /\ EngineIdle
    /\ DriverIdle
    /\ CacheIdle
    /\ BenchIdle
    /\ RateIdle
    /\ GeneratorIdle
    /\ RequestIdle
    /\ LocksIdle
    /\ \E ctor \in { "all", "empty" } :
          /\ cset = IF ctor = "all" THEN CandidateSet_all
                    ELSE CandidateSet_empty
          /\ clast = [n \in 1..9 |-> ctor]
    /\ cops = 0

Cand_add(n) ==
    /\ cops < MaxCandidateOps
    /\ cset' = add_candidate(cset, n)
    /\ clast' = [clast EXCEPT ![n] = "add"]
    /\ cops' = cops + 1
    /\ UNCHANGED << arch, solverVars, outsideCset >>

Cand_remove(n) ==
    /\ cops < MaxCandidateOps
    /\ cset' = remove_candidate(cset, n)
    /\ clast' = [clast EXCEPT ![n] = "remove"]
    /\ cops' = cops + 1
    /\ UNCHANGED << arch, solverVars, outsideCset >>

NextCandidates ==
    \/ \E n \in 1..9 : Cand_add(n)
    \/ \E n \in 1..9 : Cand_remove(n)

SpecCandidates == InitCandidates /\ [][NextCandidates]_vars

-----------------------------------------------------------------------------
(* The board cache (api.rs): a VecDeque<Grid> behind a mutex.  Every call  *)
(* but initialize_cache holds the mutex for one step; initialize_cache     *)
(* holds it while it generates boards into an empty cache.                 *)

\* the Grid of test_cache
TestBoard == [value |-> Classic, solution |-> Solved, difficulty |-> "Medium"]

\* the boards handed to add_to_cache
AddedGrids ==
    { TestBoard,
      [value |-> ZeroGrid, solution |-> Solved, difficulty |-> "Unknown"] }

\* the boards BoardGenerator::generate returns
GeneratedGrids ==
    { [value |-> Puzzle({ << 0, 8 >> }, << >>), solution |-> Solved,
       difficulty |-> "Easy"],
      [value |-> Puzzle(BlankCells, << >>), solution |-> Solved,
       difficulty |-> "Hard"] }

None == [some |-> FALSE]

Some(b) == [some |-> TRUE, board |-> b]

pop_back(c) == SubSeq(c, 1, Len(c) - 1)

\* faulty variant: the board is pushed at the back (sensitivity of C20)
add_to_cache_at_back(c, b) ==
    Append(IF Len(c) >= CacheCapacity THEN pop_back(c) ELSE c, b)

\* faulty variant: nothing is evicted (sensitivity of C35)
add_to_cache_without_eviction(c, b) == << b >> \o c

\* add_to_cache, on the locked deque: evict at the back when full, push front
add_to_cache(c, b) ==
    << b >> \o (IF Len(c) >= CacheCapacity THEN pop_back(c) ELSE c)

\* cache.pop_front()
pop_front(c) ==
    IF c = << >> THEN [ret |-> None, cache |-> c]
    ELSE [ret |-> Some(Head(c)), cache |-> Tail(c)]

InitCache ==
    /\ \E a \in Archs : SolverIdle(a)
    /\ ValidatorIdle
    /\ EngineIdle
    /\ DriverIdle
    /\ CandidatesIdle
    /\ BenchIdle
    /\ RateIdle
    /\ GeneratorIdle
    /\ RequestIdle
    /\ LocksIdle
    /\ CacheIdle

\* initialize_cache takes the mutex and tests cache.is_empty()
Cache_initialize ==
    /\ cache_ops < MaxCacheOps
    /\ cache_lock = "free"
    /\ cache_lock' = IF cache = << >> THEN "initialize_cache" ELSE "free"
    /\ cache_fill' = 0
    /\ cache_last' = [op |-> "initialize_cache"]
    /\ cache_ops' = cache_ops + 1
    /\ UNCHANGED << cache, arch, solverVars, benchVars, outsideApi >>

\* one iteration of its loop: generate() and push_back; the guard is dropped
\* after the last one
Cache_generate ==
    /\ cache_lock = "initialize_cache"
    /\ \E g \in GeneratedGrids : cache' = Append(cache, g)
    /\ cache_fill' = cache_fill + 1
    /\ cache_lock' = IF cache_fill + 1 >= GenerationThreshold THEN "free"
                     ELSE "initialize_cache"
    /\ UNCHANGED << cache_last, cache_ops, arch, solverVars, benchVars,
                    outsideApi >>

\* add_to_cache(b): BOARD_CACHE.lock() waits for the mutex
Cache_add(b) ==
    /\ cache_ops < MaxCacheOps
    /\ cache_lock = "free"
    /\ cache' = add_to_cache(cache, b)
    /\ cache_last' = [op |-> "add_to_cache", board |-> b]
    /\ cache_ops' = cache_ops + 1
    /\ UNCHANGED << cache_lock, cache_fill, arch, solverVars, benchVars,
                    outsideApi >>

\* add_to_cache_with_timeout(b): try_lock_for(1 s) gives up when the mutex
\* stays taken
Cache_add_with_timeout(b) ==
    /\ cache_ops < MaxCacheOps
    /\ IF cache_lock = "free"
       THEN /\ cache' = add_to_cache(cache, b)
            /\ cache_last' = [op |-> "add_to_cache_with_timeout", board |-> b,
                              ret |-> "Ok"]
       ELSE /\ cache' = cache
            /\ cache_last' = [op |-> "add_to_cache_with_timeout", board |-> b,
                              ret |-> "Err(CacheTimeout)"]
    /\ cache_ops' = cache_ops + 1
    /\ UNCHANGED << cache_lock, cache_fill, arch, solverVars, benchVars,
                    outsideApi >>

\* get_from_cache(): try_lock_for(1 s), then pop_front; None when the mutex
\* stays taken or the cache is empty
Cache_get ==
    /\ cache_ops < MaxCacheOps
    /\ IF cache_lock = "free"
       THEN /\ cache' = pop_front(cache).cache
            /\ cache_last' = [op |-> "get_from_cache",
                              ret |-> pop_front(cache).ret,
                              after |-> cache_last.op]
       ELSE /\ cache' = cache
            /\ cache_last' = [op |-> "get_from_cache", ret |-> None,
                              after |-> cache_last.op]
    /\ cache_ops' = cache_ops + 1
    /\ UNCHANGED << cache_lock, cache_fill, arch, solverVars, benchVars,
                    outsideApi >>

NextCache ==
    \/ Cache_initialize
    \/ Cache_generate
    \/ \E b \in AddedGrids : Cache_add(b)
    \/ \E b \in AddedGrids : Cache_add_with_timeout(b)
    \/ Cache_get

SpecCache == InitCache /\ [][NextCache]_vars

-----------------------------------------------------------------------------
(* run_benchmark (benchmark.rs) with the prefetch_boards and               *)
(* fetch_multiple_boards it calls (api.rs).  A loop iteration is one step; *)
(* what the API and the generator deliver, and whether a board is solved,  *)
(* are inputs.                                                             *)

\* what one attempt to obtain a board delivers: fetch_from_api or
\* generate_local_board returned a Grid, or both failed
Deliveries == { Some(g) : g \in GeneratedGrids } \cup { None }

InitBench ==
    /\ \E a \in Archs : SolverIdle(a)
    /\ ValidatorIdle
    /\ EngineIdle
    /\ DriverIdle
    /\ CandidatesIdle
    /\ BenchIdle
    /\ RateIdle
    /\ GeneratorIdle
    /\ RequestIdle
    /\ LocksIdle
    /\ cache \in { << >>, << TestBoard >> }
    /\ cache_lock = "free"
    /\ cache_fill = 0
    /\ cache_last = [op |-> "none"]
    /\ cache_ops = 0

\* faulty variant: no test of board_count (sensitivity of C19)
Bench_call_unchecked(n, p) ==
    /\ bpc = "idle"
    /\ board_count' = n
    /\ prefetch' = p
    /\ bpc' = IF p THEN "prefetch" ELSE "fetch_cached"
    /\ max_attempts' = IF p THEN n * 2 ELSE max_attempts
    /\ UNCHANGED << bresult, attempts, successful_fetches, boards,
                    solved_boards, bnext, bevents, cacheVars, arch, solverVars,
                    outsideApi >>

\* run_benchmark(n, p) up to the first await: the test of board_count, then
\* the entry of prefetch_boards or of fetch_multiple_boards
Bench_call(n, p) ==
    /\ bpc = "idle"
    /\ board_count' = n
    /\ prefetch' = p
    /\ IF n = 0
       THEN /\ bresult' = "Err(BenchmarkError)"
            /\ bpc' = "done"
            /\ UNCHANGED max_attempts
       ELSE /\ bresult' = bresult
            /\ bpc' = IF p THEN "prefetch" ELSE "fetch_cached"
            /\ max_attempts' = IF p THEN n * 2 ELSE max_attempts
    /\ UNCHANGED << attempts, successful_fetches, boards, solved_boards, bnext,
                    bevents, cacheVars, arch, solverVars, outsideApi >>

\* prefetch_boards: one iteration of its loop, or its return
Bench_prefetch ==
    /\ bpc = "prefetch"
    /\ IF successful_fetches < board_count /\ attempts < max_attempts
       THEN /\ \E d \in Deliveries :
                 IF d.some
                 THEN /\ cache_lock = "free"
                      /\ cache' = add_to_cache(cache, d.board)
                      /\ successful_fetches' = successful_fetches + 1
                      /\ bevents' = bevents \cup { "prefetched" }
                 ELSE UNCHANGED << cache, successful_fetches, bevents >>
            /\ attempts' = attempts + 1
            /\ bpc' = bpc
       ELSE /\ bpc' = "fetch_cached"
            /\ attempts' = 0
            /\ UNCHANGED << cache, successful_fetches, bevents >>
    /\ UNCHANGED << board_count, prefetch, max_attempts, boards, solved_boards,
                    bnext, bresult, cache_lock, cache_fill, cache_last,
                    cache_ops, arch, solverVars, outsideApi >>

\* fetch_multiple_boards: one iteration of `while let Some(board) =
\* get_from_cache()`
Bench_fetch_cached ==
    /\ bpc = "fetch_cached"
    /\ cache_lock = "free"
    /\ \E r \in { pop_front(cache) } :
          /\ cache' = r.cache
          /\ IF r.ret.some
             THEN /\ boards' = Append(boards, r.ret.board)
                  /\ bevents' = bevents \cup { "fetched" }
                  /\ bpc' = IF Len(boards) + 1 >= board_count THEN "solve"
                            ELSE "fetch_cached"
                  /\ UNCHANGED << attempts, max_attempts >>
             ELSE /\ bpc' = "fetch_generate"
                  /\ attempts' = 0
                  /\ max_attempts' = (board_count - Len(boards)) * 2
                  /\ UNCHANGED << boards, bevents >>
    /\ UNCHANGED << board_count, prefetch, successful_fetches, solved_boards,
                    bnext, bresult, cache_lock, cache_fill, cache_last,
                    cache_ops, arch, solverVars, outsideApi >>

\* fetch_multiple_boards: one iteration of its second loop, or its return
Bench_fetch_generate ==
    /\ bpc = "fetch_generate"
    /\ IF Len(boards) < board_count /\ attempts < max_attempts
       THEN /\ \E d \in Deliveries :
                 IF d.some
                 THEN /\ boards' = Append(boards, d.board)
                      /\ bevents' = bevents \cup { "fetched" }
                 ELSE UNCHANGED << boards, bevents >>
            /\ attempts' = attempts + 1
            /\ bpc' = bpc
       ELSE /\ bpc' = "solve"
            /\ UNCHANGED << boards, bevents, attempts >>
    /\ UNCHANGED << board_count, prefetch, max_attempts, successful_fetches,
                    solved_boards, bnext, bresult, cacheVars, arch, solverVars,
                    outsideApi >>

\* run_benchmark: one iteration of `for (i, board) in boards`, Solver::solve
\* returning Ok or Err, or the return of Ok(results)
Bench_solve ==
    /\ bpc = "solve"
    /\ IF bnext <= Len(boards)
       THEN /\ \E ok \in BOOLEAN :
                 solved_boards' = IF ok THEN solved_boards + 1
                                  ELSE solved_boards
            /\ bnext' = bnext + 1
            /\ bevents' = bevents \cup { "solved" }
            /\ UNCHANGED << bpc, bresult >>
       ELSE /\ bpc' = "done"
            /\ bresult' = "Ok"
            /\ UNCHANGED << solved_boards, bnext, bevents >>
    /\ UNCHANGED << board_count, prefetch, attempts, max_attempts,
                    successful_fetches, boards, cacheVars, arch, solverVars,
                    outsideApi >>

NextBench ==
    \/ \E n \in 0..MaxBoards, p \in BOOLEAN : Bench_call(n, p)
    \/ Bench_prefetch
    \/ Bench_fetch_cached
    \/ Bench_fetch_generate
    \/ Bench_solve

SpecBench == InitBench /\ [][NextBench]_vars

-----------------------------------------------------------------------------
(* fetch_new_board (api.rs) and its rate limiter.  Time is a counter of    *)
(* ticks of 50 ms.  Every lock is held within one step: no caller keeps    *)
(* LAST_REQUEST or BOARD_CACHE over an await, so try_lock_for never times  *)
(* out here and the branches that follow a timeout are left out.           *)

\* MIN_REQUEST_INTERVAL: 100 ms, in ticks
MIN_REQUEST_INTERVAL == 2

\* two tasks call fetch_new_board, each once
Callers == { 1, 2 }

\* the board the generator delivers in this harness
LocalBoard ==
    [value |-> Puzzle(BlankCells, << >>), solution |-> Solved,
     difficulty |-> "Hard"]

\* now.duration_since(last): zero when last is the later Instant
duration_since(now, last) == IF now >= last THEN now - last ELSE 0

InitRate ==
    /\ \E a \in Archs : SolverIdle(a)
    /\ ValidatorIdle
    /\ EngineIdle
    /\ DriverIdle
    /\ CandidatesIdle
    /\ CacheIdle
    /\ BenchIdle
    /\ GeneratorIdle
    /\ RequestIdle
    /\ LocksIdle
    /\ clock = 0
    /\ last_request = [init |-> FALSE]
    /\ fpc = [c \in Callers |-> "idle"]
    /\ fnow = [c \in Callers |-> 0]
    /\ fwake = [c \in Callers |-> 0]
    /\ api_requests = << >>

Tick ==
    /\ clock < MaxClock
    /\ clock' = clock + 1
    /\ UNCHANGED << last_request, fpc, fnow, fwake, api_requests, cacheVars,
                    arch, solverVars, outsideRate >>

\* fetch_new_board is entered: initialize_cache(), which fills an empty cache
Fetch_initialize(c) ==
    /\ fpc[c] = "idle"
    /\ cache_lock = "free"
    /\ IF cache = << >>
       THEN cache' = [i \in 1..GenerationThreshold |-> LocalBoard]
       ELSE cache' = cache
    /\ fpc' = [fpc EXCEPT ![c] = "get"]
    /\ UNCHANGED << clock, last_request, fnow, fwake, api_requests, cache_lock,
                    cache_fill, cache_last, cache_ops, arch, solverVars,
                    outsideRate >>

\* get_from_cache(): a board is returned at once; on a miss the call goes on
\* to `let now = Instant::now()`
Fetch_get(c) ==
    /\ fpc[c] = "get"
    /\ cache_lock = "free"
    /\ cache' = pop_front(cache).cache
    /\ IF pop_front(cache).ret.some
       THEN fpc' = [fpc EXCEPT ![c] = "returned"] /\ fnow' = fnow
       ELSE fpc' = [fpc EXCEPT ![c] = "limit"]
            /\ fnow' = [fnow EXCEPT ![c] = clock]
    /\ UNCHANGED << clock, last_request, fwake, api_requests, cache_lock,
                    cache_fill, cache_last, cache_ops, arch, solverVars,
                    outsideRate >>

\* LAST_REQUEST is locked (and initialised by its first access) and elapsed
\* is computed: either the guard is dropped and the call sleeps, or
\* *last_request = Instant::now() and the API request starts
Fetch_limit(c) ==
    /\ fpc[c] = "limit"
    /\ LET last == IF last_request.init THEN last_request.at ELSE clock
           elapsed == duration_since(fnow[c], last)
       IN IF elapsed < MIN_REQUEST_INTERVAL
          THEN /\ last_request' = [init |-> TRUE, at |-> last]
               /\ fwake' = [fwake EXCEPT
                                ![c] = clock + (MIN_REQUEST_INTERVAL - elapsed)]
               /\ fpc' = [fpc EXCEPT ![c] = "sleeping"]
               /\ api_requests' = api_requests
          ELSE /\ last_request' = [init |-> TRUE, at |-> clock]
               /\ fwake' = fwake
               /\ fpc' = [fpc EXCEPT ![c] = "requesting"]
               /\ api_requests' = Append(api_requests, clock)
    /\ UNCHANGED << clock, fnow, cacheVars, arch, solverVars, outsideRate >>

\* the sleep is over: LAST_REQUEST is locked again, *last_request =
\* Instant::now(), and the API request starts
Fetch_wake(c) ==
    /\ fpc[c] = "sleeping"
    /\ clock >= fwake[c]
    /\ last_request' = [init |-> TRUE, at |-> clock]
    /\ api_requests' = Append(api_requests, clock)
    /\ fpc' = [fpc EXCEPT ![c] = "requesting"]
    /\ UNCHANGED << clock, fnow, fwake, cacheVars, arch, solverVars,
                    outsideRate >>

\* fetch_from_api() has returned: a board goes into the cache and is
\* returned; after an error the board comes from generate_local_board()
Fetch_finish(c) ==
    /\ fpc[c] = "requesting"
    /\ cache_lock = "free"
    /\ \E d \in { Some(TestBoard), None } :
          cache' = IF d.some THEN add_to_cache(cache, d.board) ELSE cache
    /\ fpc' = [fpc EXCEPT ![c] = "returned"]
    /\ UNCHANGED << clock, last_request, fnow, fwake, api_requests, cache_lock,
                    cache_fill, cache_last, cache_ops, arch, solverVars,
                    outsideRate >>

\* another task takes every board out of the cache, as the first loop of
\* fetch_multiple_boards does
Drain ==
    /\ cache # << >>
    /\ cache_lock = "free"
    /\ cache' = << >>
    /\ UNCHANGED << rateVars, cache_lock, cache_fill, cache_last, cache_ops,
                    arch, solverVars, outsideRate >>

NextRate ==
    \/ Tick
    \/ \E c \in Callers : Fetch_initialize(c)
    \/ \E c \in Callers : Fetch_get(c)
    \/ \E c \in Callers : Fetch_limit(c)
    \/ \E c \in Callers : Fetch_wake(c)
    \/ \E c \in Callers : Fetch_finish(c)
    \/ Drain

SpecRate == InitRate /\ [][NextRate]_vars

-----------------------------------------------------------------------------
(* BoardGenerator (generator.rs).  The random generator is an input: every *)
(* outcome of a shuffle or of gen_range is possible.  fill_board is        *)
(* followed from a point it reaches when the shuffles put the digits of    *)
(* Solved first; remove_numbers visits positions of RemovalCells first.    *)

\* BoardGenerator::is_valid_placement, on a Vec<Vec<i32>>
gen_is_valid_placement(b, row, col, num) ==
    /\ \A j \in 0..8 : b[row][j] # num
    /\ \A i \in 0..8 : b[i][col] # num
    /\ \A i \in 0..2, j \in 0..2 :
          b[(row \div 3) * 3 + i][(col \div 3) * 3 + j] # num

\* fill_board(board, row, col): the boards it can leave behind when it
\* returns true, one for every way the shuffles can fall; it returns false,
\* with the board as it was, when there is none
RECURSIVE fill_board(_, _, _)
fill_board(b, row, col) ==
    IF row = 9 THEN { b }
    ELSE LET next_row == IF col = 8 THEN row + 1 ELSE row
             next_col == IF col = 8 THEN 0 ELSE col + 1
         IN IF b[row][col] # 0
            THEN fill_board(b, next_row, next_col)
            ELSE UNION { fill_board([b EXCEPT ![row][col] = num],
                                    next_row, next_col) :
                         num \in { n \in 1..9 :
                                     gen_is_valid_placement(b, row, col, n) } }

\* the board of fill_board once the shuffles have put the digits of Solved
\* first in all but the last FillFree cells
FillPoint ==
    [i \in 0..8 |-> [j \in 0..8 |->
        IF i * 9 + j < 81 - FillFree THEN Solved[i][j] ELSE 0]]

difficulty_weights ==
    << [weight |-> 4, difficulty |-> "Easy"],
       [weight |-> 62, difficulty |-> "Medium"],
       [weight |-> 34, difficulty |-> "Hard"] >>

RECURSIVE weighted_from(_, _)
weighted_from(k, rand_val) ==
    IF k > Len(difficulty_weights) THEN difficulty_weights[2].difficulty
    ELSE IF rand_val < difficulty_weights[k].weight
    THEN difficulty_weights[k].difficulty
    ELSE weighted_from(k + 1, rand_val - difficulty_weights[k].weight)

\* get_weighted_difficulty, for the value gen_range(0..total) delivered
get_weighted_difficulty(rand_val) == weighted_from(1, rand_val)

weights_total ==
    difficulty_weights[1].weight + difficulty_weights[2].weight
        + difficulty_weights[3].weight

\* cells_to_remove: 30..=35, 40..=50 and 51..=60 in the source, scaled down
\* to ranges that keep their order and stay disjoint
cells_to_remove(difficulty) ==
    CASE difficulty = "Easy" -> 1..2
      [] difficulty = "Medium" -> 3..4
      [] difficulty = "Hard" -> 5..6
      [] OTHER -> 4..4

\* the positions that come first in the shuffle of remove_numbers
RemovalCells ==
    { << 1, 7 >>, << 1, 8 >>, << 6, 7 >>, << 6, 8 >>, << 0, 0 >>, << 4, 4 >> }

gen_find_empty(b) ==
    IF \E k \in 0..80 : b[k \div 9][k % 9] = 0
    THEN LET k == CHOOSE x \in 0..80 :
                      /\ b[x \div 9][x % 9] = 0
                      /\ \A y \in 0..(x - 1) : b[y \div 9][y % 9] # 0
         IN [some |-> TRUE, row |-> k \div 9, col |-> k % 9]
    ELSE [some |-> FALSE]

\* board.iter().flatten().map(|&x| x.to_string()).collect::<String>(): the
\* 81 cells in row-major order
board_string(b) == [k \in 1..81 |-> b[(k - 1) \div 9][(k - 1) % 9]]

\* count_solutions(board, solutions, 2): the set `solutions` afterwards (the
\* value returned is its length).  count_nums is its `for num in 1..=9`.
RECURSIVE count_solutions(_, _)
RECURSIVE count_nums(_, _, _, _, _)
count_solutions(b, solutions) ==
    IF Cardinality(solutions) >= 2 THEN solutions
    ELSE LET pos == gen_find_empty(b)
         IN IF pos.some
            THEN count_nums(b, pos.row, pos.col, 1, solutions)
            ELSE solutions \cup { board_string(b) }

count_nums(b, row, col, num, solutions) ==
    IF num > 9 THEN solutions
    ELSE count_nums(b, row, col, num + 1,
                    IF gen_is_valid_placement(b, row, col, num)
                    THEN count_solutions([b EXCEPT ![row][col] = num],
                                         solutions)
                    ELSE solutions)

InitGenerator ==
    /\ \E a \in Archs : SolverIdle(a)
    /\ ValidatorIdle
    /\ EngineIdle
    /\ DriverIdle
    /\ CandidatesIdle
    /\ CacheIdle
    /\ BenchIdle
    /\ RateIdle
    /\ GeneratorIdle
    /\ RequestIdle
    /\ LocksIdle

\* generate() up to the call of remove_numbers: fill_board, the clone, the
\* difficulty and remove_count
Gen_fill ==
    /\ gpc = "idle"
    /\ \E filled \in fill_board(FillPoint, 0, 0),
          rand_val \in 0..(weights_total - 1) :
          /\ gsolution' = filled
          /\ gboard' = filled
          /\ gdifficulty' = get_weighted_difficulty(rand_val)
          /\ remove_count' \in
                 cells_to_remove(get_weighted_difficulty(rand_val))
    /\ removed' = 0
    /\ positions_seen' = << >>
    /\ unique_solutions' = {}
    /\ gpc' = "remove"
    /\ UNCHANGED << arch, solverVars, outsideGen >>

\* faulty variant: a removal that is taken back puts another digit into the
\* cell (sensitivity of C22)
Gen_remove_restores_other(pos) ==
    /\ gpc = "remove"
    /\ removed < remove_count
    /\ Cardinality(unique_solutions) < 2
    /\ \A k \in 1..Len(positions_seen) : positions_seen[k] # pos
    /\ positions_seen' = Append(positions_seen, pos)
    /\ \E found \in { count_solutions([gboard EXCEPT ![pos[1]][pos[2]] = 0],
                                       unique_solutions) } :
          /\ unique_solutions' = found
          /\ IF Cardinality(found) > 1
             THEN /\ gboard' = [gboard EXCEPT ![pos[1]][pos[2]] = (@ % 9) + 1]
                  /\ removed' = removed
             ELSE /\ gboard' = [gboard EXCEPT ![pos[1]][pos[2]] = 0]
                  /\ removed' = removed + 1
    /\ UNCHANGED << gpc, gsolution, gdifficulty, remove_count, arch,
                    solverVars, outsideGen >>

\* faulty variant: the removal is kept whatever count_solutions finds
\* (sensitivity of C39)
Gen_remove_without_check(pos) ==
    /\ gpc = "remove"
    /\ removed < remove_count
    /\ Cardinality(unique_solutions) < 2
    /\ \A k \in 1..Len(positions_seen) : positions_seen[k] # pos
    /\ positions_seen' = Append(positions_seen, pos)
    /\ unique_solutions' =
           count_solutions([gboard EXCEPT ![pos[1]][pos[2]] = 0],
                           unique_solutions)
    /\ gboard' = [gboard EXCEPT ![pos[1]][pos[2]] = 0]
    /\ removed' = removed + 1
    /\ UNCHANGED << gpc, gsolution, gdifficulty, remove_count, arch,
                    solverVars, outsideGen >>

\* one iteration of `for (row, col) in positions` that gets to the
\* uniqueness check.  (With two solutions in the set every later iteration
\* restores its cell: see Gen_rest.)
Gen_remove(pos) ==
    /\ gpc = "remove"
    /\ removed < remove_count
    /\ Cardinality(unique_solutions) < 2
    /\ \A k \in 1..Len(positions_seen) : positions_seen[k] # pos
    /\ positions_seen' = Append(positions_seen, pos)
    /\ \E found \in { count_solutions([gboard EXCEPT ![pos[1]][pos[2]] = 0],
                                       unique_solutions) } :
          /\ unique_solutions' = found
          /\ IF Cardinality(found) > 1
             THEN gboard' = gboard /\ removed' = removed
             ELSE /\ gboard' = [gboard EXCEPT ![pos[1]][pos[2]] = 0]
                  /\ removed' = removed + 1
    /\ UNCHANGED << gpc, gsolution, gdifficulty, remove_count, arch,
                    solverVars, outsideGen >>

\* the iterations left once `unique_solutions` holds two solutions:
\* count_solutions returns 2 at once, every cell is restored, the loop runs
\* out of positions, and generate() returns the Grid
Gen_rest ==
    /\ gpc = "remove"
    /\ removed < remove_count
    /\ Cardinality(unique_solutions) >= 2
    /\ gpc' = "done"
    /\ UNCHANGED << gsolution, gboard, gdifficulty, remove_count, removed,
                    positions_seen, unique_solutions, arch, solverVars,
                    outsideGen >>

\* `if removed >= count { break; }`, and generate() returns the Grid
Gen_break ==
    /\ gpc = "remove"
    /\ removed >= remove_count
    /\ gpc' = "done"
    /\ UNCHANGED << gsolution, gboard, gdifficulty, remove_count, removed,
                    positions_seen, unique_solutions, arch, solverVars,
                    outsideGen >>

NextGenerator ==
    \/ Gen_fill
    \/ \E pos \in RemovalCells : Gen_remove(pos)
    \/ Gen_rest
    \/ Gen_break

SpecGenerator == InitGenerator /\ [][NextGenerator]_vars

-----------------------------------------------------------------------------
(* Reference notions the properties are stated with.  They are written on  *)
(* 9x9 matrices and use none of the operators above.                       *)

Digits == 1..9

RowCells(i) == { << i, j >> : j \in 0..8 }

ColCells(j) == { << i, j >> : i \in 0..8 }

BoxCells(k) == { << (k \div 3) * 3 + di, (k % 3) * 3 + dj >> :
                 di \in 0..2, dj \in 0..2 }

Units == { RowCells(i) : i \in 0..8 } \cup { ColCells(j) : j \in 0..8 }
         \cup { BoxCells(k) : k \in 0..8 }

\* every row, column and box holds each digit 1..9 exactly once
IsValidGrid(g) ==
    \A u \in Units : \A d \in Digits :
        Cardinality({ c \in u : g[c[1]][c[2]] = d }) = 1

\* some digit occurs twice among the filled cells of a row, column or box
HasDuplicate(g) ==
    \E u \in Units : \E d \in Digits :
        Cardinality({ c \in u : g[c[1]][c[2]] = d }) > 1

EmptyCellsOf(g) == { c \in (0..8) \X (0..8) : g[c[1]][c[2]] = 0 }

Fits(g, c, d) ==
    \A u \in Units : c \in u => \A x \in u : g[x[1]][x[2]] # d

\* every valid grid that agrees with g on the filled cells of g
RECURSIVE CompletionsOf(_)
CompletionsOf(g) ==
    IF EmptyCellsOf(g) = {}
    THEN (IF IsValidGrid(g) THEN { g } ELSE {})
    ELSE LET c == CHOOSE x \in EmptyCellsOf(g) : TRUE
         IN UNION { CompletionsOf([g EXCEPT ![c[1]][c[2]] = d]) :
                    d \in { e \in Digits : Fits(g, c, e) } }

Returned == cpc = "returned"

\* solve() went through the parallel fan-out
FannedOut == Tasks # {}

\* task t searched its branch to exhaustion: it placed its digit on its board
\* and returned None without reaching the fetch_or
DeadEnd(t) ==
    /\ tret[t] = "None"
    /\ fetch_ret[t] = "none"
    /\ tboard[t][sel[1] * 9 + sel[2]] # 0

-----------------------------------------------------------------------------
(* Properties of Solver::solve.                                            *)

\* C1: whenever solve() returns Ok(S), S has no zero cell and every row,
\* column and 3x3 box of S holds each digit 1..9 exactly once
C1_OkIsValid == result = "Ok" => IsValidGrid(retboard)

\* C1 witness: an Ok from the fan-out in which a second branch also completed
\* a board and lost the fetch_or
C1_Witness ==
    /\ result = "Ok"
    /\ \E t \in Tasks : fetch_ret[t] = "true"
    /\ IsValidGrid(retboard)

\* C3: whenever solve() returns Ok(S), every non-zero cell of the input puzzle
\* holds the same value in S, and no branch board differs from the solver's
\* board on a cell that is filled there
C3_FixedCellsKept ==
    /\ result = "Ok" =>
           \A i \in 0..8 : \A j \in 0..8 :
               grid.value[i][j] # 0 => retboard[i][j] = grid.value[i][j]
    /\ cpc = "fanout" =>
           \A t \in Tasks : \A k \in 0..80 :
               board[k] # 0 => tboard[t][k] = board[k]

\* C3 witness: an Ok whose board fills cells that were empty in a puzzle that
\* has filled cells different from both reference grids
C3_Witness ==
    /\ result = "Ok"
    /\ FannedOut
    /\ grid.value[1][8] = 4
    /\ EmptyCellsOf(grid.value) # {}
    /\ \A c \in EmptyCellsOf(grid.value) : retboard[c[1]][c[2]] # 0

\* C4: solve() returns Err exactly when no valid completion extends the
\* puzzle's fixed digits
C4_ErrIffNoCompletion ==
    Returned => (result = "Err" <=> CompletionsOf(grid.value) = {})

\* C4 witness: total exhaustion: two branches ran, both reached a dead end,
\* and solve() returned Err
C4_Witness ==
    /\ Returned
    /\ result = "Err"
    /\ Cardinality(Tasks) >= 2
    /\ \A t \in Tasks : DeadEnd(t)
    /\ CompletionsOf(grid.value) = {}

\* C2: for a puzzle whose only valid completion is the supplied reference,
\* solve() returns Ok with exactly the reference matrix, and afterwards
\* has_unique_solution() and verify_solution() are both true
C2_UniqueReference ==
    (Returned /\ CompletionsOf(grid.value) = { grid.solution }) =>
        /\ result = "Ok"
        /\ retboard = grid.solution
        /\ has_unique_solution
        /\ verify_solution

\* C2 witness: the board of test_almost_complete_board, one empty cell, solved
\* through the fan-out
C2_Witness ==
    /\ Returned
    /\ FannedOut
    /\ EmptyCellsOf(grid.value) = { << 0, 8 >> }
    /\ CompletionsOf(grid.value) = { grid.solution }
    /\ result = "Ok"

\* C5: after a solve() that returns Ok, has_unique_solution() is true exactly
\* when the returned board equals the reference board
C5_UniqueIffReturnedIsReference ==
    result = "Ok" => (has_unique_solution <=> retboard = grid.solution)

\* C6: for a puzzle with two or more valid completions and a reference that is
\* one of them, solve() returns Ok and has_unique_solution() is false
C6_AmbiguousIsNotUnique ==
    ( /\ Returned
      /\ Cardinality(CompletionsOf(grid.value)) >= 2
      /\ grid.solution \in CompletionsOf(grid.value) ) =>
        (result = "Ok" /\ ~ has_unique_solution)

\* what has_unique_solution() is after the schedule that runs the closures one
\* after the other in list order: the first branch that completes a board sets
\* the found flag, so only its board is compared with the reference
RECURSIVE first_completed_matches(_)
first_completed_matches(t) ==
    IF t > Len(sorted_candidates) THEN FALSE
    ELSE LET r == try_solve_with_value(sel[1], sel[2], sorted_candidates[t],
                                       Board_new(grid.value), simd_solver)
         IN IF r.ok THEN r.board = solution
            ELSE first_completed_matches(t + 1)

\* C7: for a fixed puzzle and reference, has_unique_solution() after solve() is
\* the same in every schedule of the branch tasks: it is what the schedule
\* that runs them one after the other yields
C7_UniqueIsScheduleIndependent ==
    (Returned /\ FannedOut) =>
        (has_unique_solution <=> first_completed_matches(1))

\* at most one task sends, it is the task whose fetch_or returned false, and
\* the board solve() returns is that task's board
OneSender ==
    /\ Len(sends) <= 1
    /\ \A i \in 1..Len(sends) : fetch_ret[sends[i]] = "false"
    /\ Cardinality({ t \in Tasks : fetch_ret[t] = "false" }) <= 1
    /\ Len(chan) <= 1
    /\ (result = "Ok" /\ FannedOut) =>
           /\ Len(sends) = 1
           /\ board = tboard[sends[1]]
           /\ retboard = to_vec(tboard[sends[1]])

\* C8: in every interleaving at most one branch task sends a board, namely the
\* task whose fetch_or returned false; the found flag never returns to false;
\* the board solve() returns is that task's board
C8_SingleSender ==
    /\ [] OneSender
    /\ [][solution_found => solution_found']_vars

\* C8 witness: two branches completed a board, one fetch_or returned false and
\* the other true, and the single send was received
C8_Witness ==
    /\ Returned
    /\ result = "Ok"
    /\ Len(sends) = 1
    /\ \E t \in Tasks : t # sends[1] /\ fetch_ret[t] = "true"
    /\ board = tboard[sends[1]]

\* C9: if the puzzle's fixed digits hold the same digit twice in a row, column
\* or box, solve() returns Err(InvalidBoard) and never Ok
C9_DuplicateIsRejected ==
    HasDuplicate(grid.value) =>
        (result # "Ok" /\ (Returned => result = "Err"))

\* C9 witness: the two 5s in row 0 of test_invalid_board, rejected after the
\* search of a branch
C9_Witness ==
    /\ Returned
    /\ grid.value[0][0] = 5
    /\ grid.value[0][1] = 5
    /\ FannedOut
    /\ \E t \in Tasks : DeadEnd(t)
    /\ result = "Err"

-----------------------------------------------------------------------------
(* Properties of SimdValidator::validate_solution.                         *)

\* every call made so far returned true exactly when the board has no zero
\* cell and every row, column and box holds each digit 1..9 exactly once
ValidateResultsRight ==
    \A i \in 1..Len(vresults) : vresults[i] <=> IsValidGrid(to_vec(vboard))

\* C10: for every board with cells in 0..9, validate_solution returns true
\* iff no cell is 0 and every row, column and 3x3 box holds each digit 1..9
\* exactly once; a call leaves the board as it was, and repeated calls on the
\* same board return the same result
C10_ValidateIsExact ==
    /\ [] ValidateResultsRight
    /\ [] (\A i, j \in 1..Len(vresults) : vresults[i] = vresults[j])
    /\ [][vboard' = vboard]_vars

\* C10 witness: rows 0 and 3 exchanged, so that every row and every column is
\* still a permutation of 1..9 and only boxes are broken; two calls, both false
C10_Witness ==
    /\ Len(vresults) = 2
    /\ vresults[1] = FALSE
    /\ vresults[2] = FALSE
    /\ \A k \in 0..80 : vboard[k] \in 1..9
    /\ \A i \in 0..8 : \A d \in Digits :
           /\ \E j \in 0..8 : vboard[i * 9 + j] = d
           /\ \E j \in 0..8 : vboard[j * 9 + i] = d

-----------------------------------------------------------------------------
(* Properties of the two validation paths.                                 *)

\* C11: on every board with cells in 0..255 the vector path and the scalar
\* fallback both return (neither panics), they return the same boolean, and
\* that boolean is false whenever some cell is 0 or greater than 9
C11_PathsAgree ==
    /\ \A i \in 1..Len(vresults) : vresults[i].outcome # "panic"
    /\ \A i, j \in 1..Len(vresults) : vresults[i].outcome = vresults[j].outcome
    /\ (\E k \in 0..80 : vboard[k] = 0 \/ vboard[k] > 9) =>
           \A i \in 1..Len(vresults) : vresults[i].outcome = "false"

-----------------------------------------------------------------------------
(* Properties of the mask engine.                                          *)

\* the cells that share the row, the column or the box of (row, col)
Peers(row, col) ==
    { c \in (0..8) \X (0..8) :
        \/ c[1] = row
        \/ c[2] = col
        \/ (c[1] \div 3 = row \div 3 /\ c[2] \div 3 = col \div 3) }

\* value occurs somewhere in the row, the column or the box of (row, col)
OccursNear(b, row, col, value) ==
    \E c \in Peers(row, col) : b[c[1] * 9 + c[2]] = value

\* C12: for every board with cells in 0..9, every cell and every value in
\* 1..9, the engine built by SimdSolver::new(board) answers
\* is_valid_candidate(row, col, value) = true iff value occurs nowhere in the
\* row, the column and the box of the cell, on each of the three variants
C12_FreshEngineIsExact ==
    elast.op = "new" =>
        \A row \in 0..8, col \in 0..8, value \in 1..9 :
            is_valid_candidate(engine, row, col, value)
                <=> ~ OccursNear(eboard, row, col, value)

\* the step is a call engine.update_masks(row, col, value)
IsEngineUpdate ==
    /\ eupdates' = eupdates + 1
    /\ elast'.op = "update_masks"
    /\ elast'.on = "engine"

\* C13: update_masks(row, col, value) with value in 1..9 makes no legality
\* check; afterwards is_valid_candidate(r, c, value) is false for every cell
\* sharing the row, column or box, and is_valid_candidate is unchanged for
\* every other digit and for every cell sharing none of the three units
C13_UpdateEffect ==
    [][ IsEngineUpdate =>
          /\ \A c \in Peers(elast'.row, elast'.col) :
                 ~ is_valid_candidate(engine', c[1], c[2], elast'.value)
          /\ \A r \in 0..8, c \in 0..8, d \in 1..9 :
                 (d # elast'.value \/ << r, c >> \notin Peers(elast'.row, elast'.col))
                     => (is_valid_candidate(engine', r, c, d)
                            <=> is_valid_candidate(engine, r, c, d)) ]_vars

\* C14: a cloned engine is independent of its source: update_masks on the
\* clone leaves the source's masks, hence every is_valid_candidate answer of
\* the source, as they were, and vice versa; and a recursive attempt that
\* fails leaves the caller's board and engine exactly as they were before
\* the attempt
C14_CloneIsIndependent ==
    /\ [][ (elast'.op = "update_masks" /\ eupdates' = eupdates + 1
              /\ elast'.on = "clone")
           => engine' = engine ]_vars
    /\ [][ (elast'.op = "update_masks" /\ eupdates' = eupdates + 1
              /\ elast'.on = "engine" /\ eclone.some)
           => eclone' = eclone ]_vars
    /\ [][ (elast'.op = "attempt" /\ elast.op = "new" /\ ~ elast'.ok)
           => (eboard' = eboard /\ engine' = engine) ]_vars

\* C14 witness: the clone was updated with a digit its source still offers
\* at the updated cell's row while the clone no longer does
C14_Witness ==
    /\ elast.op = "update_masks"
    /\ elast.on = "clone"
    /\ \E c \in 0..8 :
          /\ is_valid_candidate(engine, elast.row, c, elast.value)
          /\ ~ is_valid_candidate(eclone, elast.row, c, elast.value)

-----------------------------------------------------------------------------
(* Properties of the solver's observers.                                   *)

\* C15: when solve() returns Ok(S), the solver's working board equals S:
\* get_solution() returns S, and verify_solution() is true iff S equals the
\* reference board cell by cell
C15_WorkingBoardIsResult ==
    result = "Ok" =>
        /\ get_solution = retboard
        /\ \A i \in 0..8, j \in 0..8 : Board_get(board, i, j) = retboard[i][j]
        /\ verify_solution <=>
               \A i \in 0..8, j \in 0..8 : retboard[i][j] = grid.solution[i][j]

\* C15 witness: an Ok out of the fan-out whose board is not the reference
C15_Witness ==
    /\ Returned
    /\ FannedOut
    /\ result = "Ok"
    /\ get_solution = retboard
    /\ retboard # grid.value
    /\ ~ verify_solution

-----------------------------------------------------------------------------
(* The reference board and the result of solve().                          *)

\* what solve() returns when it is entered with working board b0 and the
\* branch task `winner` is the first to send: computed from the puzzle, the
\* target and the schedule, with no access to the reference board
solve_result_of(b0, winner) ==
    LET c0 == precompute_candidates(Board_new(grid.value))
        e0 == IF has_simd_support THEN SimdSolver_new(Board_new(grid.value))
              ELSE NoSimdSolver
        ec == CHOOSE x \in { find_empty_cells(b0, c0) } : TRUE
    IN IF ec = << >>
       THEN IF validate_solution(b0)
            THEN [kind |-> "Ok", board |-> to_vec(b0)]
            ELSE [kind |-> "Err", board |-> << >>]
       ELSE LET row == ec[1][1]
                col == ec[1][2]
            IN IF CandidateSet_is_empty(c0[row * 9 + col])
               THEN [kind |-> "Err", board |-> << >>]
               ELSE LET sc == solve_order(b0, c0, row, col)
                        out(t) == try_solve_with_value(row, col, sc[t], b0, e0)
                    IN IF \E t \in 1..Len(sc) : out(t).ok
                       THEN [kind  |-> "Ok",
                             board |-> IF winner \in 1..Len(sc)
                                       THEN to_vec(out(winner).board)
                                       ELSE << >>]
                       ELSE [kind |-> "Err", board |-> << >>]

\* C16: the reference board has no influence on what solve() returns: the
\* result of every call is the one determined by the puzzle, the target and
\* the schedule alone, whichever reference the solver was given; and
\* get_original_solution() is the supplied reference before, during and
\* after any number of solve() calls
C16_ReferenceOnlyCompared ==
    /\ get_original_solution = grid.solution
    /\ Returned =>
          LET x == solve_result_of(entry_board,
                                   IF sends = << >> THEN 0 ELSE sends[1])
          IN /\ result = x.kind
             /\ result = "Ok" => retboard = x.board

\* C16 witness: a repeated call has returned Ok with a board that is not the
\* reference, and the reference is still the one supplied
C16_Witness ==
    /\ Returned
    /\ calls = MaxSolveCalls
    /\ result = "Ok"
    /\ retboard # grid.solution
    /\ get_original_solution = grid.solution

-----------------------------------------------------------------------------
(* Properties of CandidateSet.                                             *)

\* the digits the set should hold: those whose last call was add_candidate,
\* or that came with all() and were never removed
ShouldHold == { n \in 1..9 : clast[n] \in { "all", "add" } }

\* C17: for a CandidateSet built by all() or empty() and changed by any
\* sequence of add_candidate / remove_candidate calls with n in 1..9:
\* has_candidate(n) reports the last call on n, count_candidates is the
\* number of digits present, only the low 9 bits are ever set, and
\* iter_candidates yields exactly the present digits in ascending order
C17_CandidateSetTracksCalls ==
    clast # << >> =>
        /\ cset \in 0..511
        /\ \A n \in 1..9 : has_candidate(cset, n) <=> n \in ShouldHold
        /\ count_candidates(cset) = Cardinality(ShouldHold)
        /\ LET q == iter_candidates(cset)
           IN /\ { q[i] : i \in 1..Len(q) } = ShouldHold
              /\ \A i \in 1..Len(q), j \in 1..Len(q) : i < j => q[i] < q[j]
              /\ iter_candidates(cset) = q

\* C17 witness: after the calls the set holds a digit that was added, lacks
\* one that was removed, and is neither full nor empty
C17_Witness ==
    /\ clast # << >>
    /\ cops = MaxCandidateOps
    /\ \E n \in 1..9 : clast[n] = "add" /\ has_candidate(cset, n)
    /\ \E n \in 1..9 : clast[n] = "remove" /\ ~ has_candidate(cset, n)
    /\ count_candidates(cset) \in 2..8

-----------------------------------------------------------------------------
(* Rejection of a puzzle whose fixed digits clash.                         *)

\* a branch task has been started / has placed a digit on its board copy
TaskStarted(t) == tpc[t] # "pending"

TaskPlaced(t) == tboard[t] # board

\* C18: when the fixed digits of the puzzle already violate row, column or
\* box uniqueness, solve() returns Err(InvalidBoard) at once: no branch task
\* is ever started and no candidate digit is ever placed
C18_DuplicateRejectedAtOnce ==
    HasDuplicate(grid.value) =>
        /\ \A t \in Tasks : ~ TaskStarted(t) /\ ~ TaskPlaced(t)
        /\ Returned => result = "Err"

-----------------------------------------------------------------------------
(* Properties of the board cache.                                          *)

IsCacheAdd == cache_ops' = cache_ops + 1 /\ cache_last'.op = "add_to_cache"

IsCacheGet == cache_ops' = cache_ops + 1 /\ cache_last'.op = "get_from_cache"

\* C20: a get_from_cache() that directly follows add_to_cache(b) returns b,
\* with value, solution and difficulty as they were added; add_to_cache puts
\* its board ahead of everything already in the cache, so the boards it
\* added are served most recent first and ahead of the boards that
\* initialize_cache appended
C20_AddedBoardServedFirst ==
    [][ /\ (cache_last.op = "add_to_cache" /\ IsCacheGet) =>
              /\ cache_last'.ret.some
              /\ cache_last'.ret.board.value = cache_last.board.value
              /\ cache_last'.ret.board.solution = cache_last.board.solution
              /\ cache_last'.ret.board.difficulty = cache_last.board.difficulty
        /\ IsCacheAdd =>
              /\ cache'[1] = cache_last'.board
              /\ \A i \in 2..Len(cache') : cache'[i] = cache[i - 1]
        /\ (IsCacheGet /\ cache_lock = "free" /\ cache # << >>) =>
              /\ cache_last'.ret = Some(cache[1])
              /\ cache_last'.ret.board \in GeneratedGrids =>
                    \A i \in 1..Len(cache) : cache[i] \notin AddedGrids
      ]_vars

\* C20 witness: the board of test_cache is returned by the get_from_cache()
\* that follows its add_to_cache, ahead of a generated board still cached
C20_Witness ==
    /\ cache_last.op = "get_from_cache"
    /\ cache_last.after = "add_to_cache"
    /\ cache_last.ret = Some(TestBoard)
    /\ \E i \in 1..Len(cache) : cache[i] \in GeneratedGrids

-----------------------------------------------------------------------------
(* Properties of run_benchmark.                                            *)

\* C19: run_benchmark(0, prefetch) returns Err(BenchmarkError) for either
\* value of prefetch, and it does so before any board is prefetched, fetched
\* or solved
C19_ZeroCountIsRejected ==
    (board_count = 0 /\ bpc # "idle") =>
        /\ bpc = "done"
        /\ bresult = "Err(BenchmarkError)"
        /\ bevents = {}
        /\ boards = << >>
        /\ attempts = 0
        /\ solved_boards = 0

\* C19 witness: run_benchmark(0, true) has returned the error although a
\* board was in the cache to be fetched
C19_Witness ==
    /\ bpc = "done"
    /\ board_count = 0
    /\ prefetch
    /\ bresult = "Err(BenchmarkError)"
    /\ cache = << TestBoard >>
    /\ bevents = {}

-----------------------------------------------------------------------------
(* Properties of the rate limiter.                                         *)

\* C21: with any number of concurrent callers, two API requests started by
\* fetch_new_board are never less than MIN_REQUEST_INTERVAL apart
C21_RequestsAreSpaced ==
    \A i \in 1..Len(api_requests), j \in 1..Len(api_requests) :
        i < j => api_requests[j] - api_requests[i] >= MIN_REQUEST_INTERVAL

-----------------------------------------------------------------------------
(* Properties of BoardGenerator::generate.                                 *)

Is9x9(g) == DOMAIN g = 0..8 /\ \A i \in 0..8 : DOMAIN g[i] = 0..8

\* C22: every Grid returned by generate() has a 9x9 value and a 9x9
\* solution, the solution is a complete valid Sudoku grid, and every
\* non-zero cell of value equals the same cell of solution
C22_GeneratedGridIsSound ==
    gpc = "done" =>
        /\ Is9x9(gboard)
        /\ Is9x9(gsolution)
        /\ IsValidGrid(gsolution)
        /\ \A i \in 0..8, j \in 0..8 :
              gboard[i][j] # 0 => gboard[i][j] = gsolution[i][j]

\* C22 witness: a Grid is returned whose solution is not the grid the fill
\* started along, with cells removed and one removal taken back
C22_Witness ==
    /\ gpc = "done"
    /\ gsolution # Solved
    /\ removed >= 2
    /\ Len(positions_seen) > removed
    /\ \E i \in 0..8, j \in 0..8 : gboard[i][j] = 0

-----------------------------------------------------------------------------
(* The found flag and the depth of the search.                             *)

\* the number of try_solve_with_value calls (frames) the search of one
\* branch makes, the first one included
RECURSIVE search_frames(_, _, _, _, _)
RECURSIVE frames_nums(_, _, _, _, _)
search_frames(start_row, start_col, value, b, ss) ==
    LET b1 == Board_set(b, start_row, start_col, value)
        s1 == IF ss.some THEN update_masks(ss, start_row, start_col, value)
              ELSE ss
        next == find_next_empty(b1)
    IN IF next.some
       THEN 1 + frames_nums(1, next.row, next.col, b1, s1)
       ELSE 1

frames_nums(num, next_row, next_col, b, ss) ==
    IF num > 9 THEN 0
    ELSE IF is_valid(b, ss, next_row, next_col, num)
    THEN IF try_solve_with_value(next_row, next_col, num, b, ss).ok
         THEN search_frames(next_row, next_col, num, b, ss)
         ELSE search_frames(next_row, next_col, num, b, ss)
                  + frames_nums(num + 1, next_row, next_col, b, ss)
    ELSE frames_nums(num + 1, next_row, next_col, b, ss)

\* C23: once the found flag is set no branch task starts a deeper
\* try_solve_with_value call: a task whose search is under way makes no
\* call beyond its current frame, and a task that has not begun returns
\* without placing a digit
C23_NoDescentAfterFound ==
    [][ \A t \in Tasks :
          /\ (solution_found /\ tpc[t] = "running" /\ tpc'[t] # "running") =>
                search_frames(sel[1], sel[2], sorted_candidates[t], board,
                              simd_solver) <= 1
          /\ (solution_found /\ tpc[t] = "pending" /\ tpc'[t] # "pending") =>
                tpc'[t] = "done" /\ tboard'[t] = board
      ]_vars

-----------------------------------------------------------------------------
(* The boards and mask engines of a branch's search.                       *)

\* the (board, engine) pairs of the frames of one branch's search, each taken
\* after the frame's board.set and update_masks
RECURSIVE search_states(_, _, _, _, _)
RECURSIVE states_nums(_, _, _, _, _)
search_states(start_row, start_col, value, b, ss) ==
    LET b1 == Board_set(b, start_row, start_col, value)
        s1 == IF ss.some THEN update_masks(ss, start_row, start_col, value)
              ELSE ss
        next == find_next_empty(b1)
    IN { [board |-> b1, engine |-> s1] } \cup
       (IF next.some THEN states_nums(1, next.row, next.col, b1, s1) ELSE { })

states_nums(num, next_row, next_col, b, ss) ==
    IF num > 9 THEN { }
    ELSE IF is_valid(b, ss, next_row, next_col, num)
    THEN search_states(next_row, next_col, num, b, ss) \cup
         (IF try_solve_with_value(next_row, next_col, num, b, ss).ok
          THEN { }
          ELSE states_nums(num + 1, next_row, next_col, b, ss))
    ELSE states_nums(num + 1, next_row, next_col, b, ss)

\* digit v is recorded somewhere in a unit's mask: a lane with bit v - 1 set,
\* or on the scalar engine an entry equal to v
marked(mask, v) ==
    IF arch = "scalar" THEN \E p \in 0..8 : mask[p] = v
    ELSE \E l \in 0..7 : BitAt(mask[l], v - 1) = 1

FilledCellsMarked(b, e) ==
    \A row \in 0..8, col \in 0..8 :
        LET v == Board_get(b, row, col) IN
        v # 0 => /\ marked(e.row_masks[row], v)
                 /\ marked(e.col_masks[col], v)
                 /\ marked(e.box_masks[get_box_index(row, col)], v)

EngineAgreesWithScan(b, e) ==
    \A row \in 0..8, col \in 0..8, num \in 1..9 :
        is_empty_cell(b, row, col) =>
            (is_valid_candidate(e, row, col, num)
                 <=> is_valid_placement(b, row, col, num))

\* C24: at every frame of every branch's search, each filled cell (r, c, v)
\* of the branch's board has v marked in row r, column c and the box of the
\* branch's mask engine, so that is_valid_candidate and is_valid_placement
\* agree on the branch's board
C24_BranchMasksTrackBoard ==
    simd_solver.some =>
        \A t \in Tasks :
            tpc[t] = "running" =>
                \A st \in search_states(sel[1], sel[2], sorted_candidates[t],
                                        board, simd_solver) :
                    /\ FilledCellsMarked(st.board, st.engine)
                    /\ EngineAgreesWithScan(st.board, st.engine)

-----------------------------------------------------------------------------
(* What one branch task finds.                                             *)

\* g comes no later than h when the cells are compared in row-major order
RowMajorLeq(g, h) ==
    \/ g = h
    \/ \E k \in 0..80 :
          /\ \A j \in 0..(k - 1) : g[j \div 9][j % 9] = h[j \div 9][j % 9]
          /\ g[k \div 9][k % 9] < h[k \div 9][k % 9]

\* a puzzle with three completions, two of which share the digit of the
\* selected cell, for the targets whose search of it stays small (the SSE2
\* engine rejects digit 8 only, so its search visits every filling)
DeepBlanks ==
    { << 1, 7 >>, << 1, 8 >>, << 6, 3 >>, << 6, 7 >>, << 6, 8 >>,
      << 7, 3 >>, << 7, 8 >> }

InitDeep ==
    \/ Init
    \/ /\ \E a \in Archs \ { "sse2" } :
              Solver_new(a, [value    |-> Puzzle(DeepBlanks, << >>),
                             solution |-> Solved])
       /\ ValidatorIdle
       /\ EngineIdle
       /\ DriverIdle
       /\ CandidatesIdle
       /\ CacheIdle
       /\ BenchIdle
       /\ RateIdle
       /\ GeneratorIdle
       /\ RequestIdle
       /\ LocksIdle

SpecDeep == InitDeep /\ [][Next]_vars

\* the valid completions of the puzzle that have digit d in the selected cell
CompletionsWith(d) ==
    { g \in CompletionsOf(grid.value) : g[sel[1]][sel[2]] = d }

\* C25: a branch task for digit d that runs its search returns true exactly
\* when some valid completion of the puzzle has d in the selected cell, and
\* its board is then the first such completion in depth-first order (next
\* empty cell in row-major order, digits 1..9 ascending)
C25_BranchFindsFirstCompletion ==
    [][ \A t \in Tasks :
          (tpc[t] = "running" /\ tpc'[t] # "running") =>
              \E W \in { CompletionsWith(sorted_candidates[t]) } :
                  /\ tpc'[t] = "solved" <=> W # { }
                  /\ tpc'[t] = "solved" =>
                        /\ to_vec(tboard'[t]) \in W
                        /\ \A h \in W : RowMajorLeq(to_vec(tboard'[t]), h)
      ]_vars

C25_Witness ==
    \E t \in Tasks :
        /\ tpc[t] = "solved"
        /\ Cardinality(CompletionsWith(sorted_candidates[t])) >= 2
        /\ to_vec(tboard[t]) \in CompletionsWith(sorted_candidates[t])
        /\ \A h \in CompletionsWith(sorted_candidates[t]) :
               RowMajorLeq(to_vec(tboard[t]), h)

-----------------------------------------------------------------------------
(* The handoff channel at the end of the fan-out.                          *)

\* find_map_first has returned and the coordinator has not yet read the flag
FanOutFinished == cpc = "fanout" /\ \A t \in Tasks : tpc[t] = "done"

\* C26: whenever the found flag is set when the fan-out finishes, exactly one
\* board is in the handoff channel: the winner's send went through without
\* blocking or timing out, and the coordinator's receive succeeds, so the
\* failure path of the receive is never taken
C26_HandoffNeverFails ==
    /\ [] ( (FanOutFinished /\ solution_found) =>
               /\ Len(chan) = 1
               /\ Len(sends) = 1
               /\ tret[sends[1]] = "Some"
               /\ chan[1] = tboard[sends[1]] )
    /\ [][ (FanOutFinished /\ solution_found /\ cpc' = "returned") =>
               /\ result' = "Ok"
               /\ board' = chan[1]
               /\ chan' = << >> ]_vars

C26_Witness ==
    /\ FanOutFinished
    /\ solution_found
    /\ Len(chan) = 1
    /\ \E t \in Tasks, u \in Tasks :
          /\ tret[t] = "Some"
          /\ fetch_ret[u] = "true"
          /\ tboard[u] # tboard[t]

-----------------------------------------------------------------------------
(* What the branch tasks write.                                            *)

\* the step is one of task t's own
StepOf(t) == tpc'[t] # tpc[t]

\* C27: during the fan-out the tasks share only the found flag, the
\* matches-reference flag and the channel; a task places digits only on its
\* own clones, and the solver's working board, reference board, candidate
\* array and mask engine stay as they were until the fan-out has finished
C27_TasksWriteOnlyTheirClones ==
    [][ /\ (cpc = "fanout" /\ ~ FanOutFinished) =>
              /\ board' = board
              /\ solution' = solution
              /\ candidates' = candidates
              /\ simd_solver' = simd_solver
        /\ cpc = "fanout" =>
              \A t \in Tasks :
                  ~ StepOf(t) =>
                      /\ tboard'[t] = tboard[t]
                      /\ tret'[t] = tret[t]
                      /\ fetch_ret'[t] = fetch_ret[t]
      ]_vars

C27_Witness ==
    /\ cpc = "fanout"
    /\ board = Board_new(grid.value)
    /\ candidates = precompute_candidates(board)
    /\ \E t \in Tasks, u \in Tasks :
          /\ tboard[t] # board
          /\ tboard[u] # board
          /\ tboard[t] # tboard[u]
          /\ tpc[u] # "done"

-----------------------------------------------------------------------------
(* The cell selector.                                                      *)

EmptyOf(b) == { c \in (0..8) \X (0..8) : is_empty_cell(b, c[1], c[2]) }

CountAt(cand, c) == count_candidates(cand[c[1] * 9 + c[2]])

\* the empty cells with the least number of candidates
FewestCells(b, cand) ==
    { c \in EmptyOf(b) : \A x \in EmptyOf(b) : CountAt(cand, c) <= CountAt(cand, x) }

\* among those, the cells of greatest impact
BestCells(b, cand) ==
    { c \in FewestCells(b, cand) :
        \A x \in FewestCells(b, cand) :
            calculate_impact(b, cand, c[1], c[2])
                >= calculate_impact(b, cand, x[1], x[2]) }

\* the cells of S as a sequence in row-major order
RowMajor(S) == ascending({ c[1] * 9 + c[2] : c \in S })

\* the puzzle is still on the solver's board: solve() has not stored a result
BoardUntouched == cpc \in { "idle", "fanout" }

-----------------------------------------------------------------------------
(* The impact of a cell.                                                   *)

\* the other cells that share a row, a column or a box with c
PeersOf(c) ==
    { x \in (0..8) \X (0..8) :
        /\ x # c
        /\ \/ x[1] = c[1]
           \/ x[2] = c[2]
           \/ get_box_index(x[1], x[2]) = get_box_index(c[1], c[2]) }

\* the candidates that c has in common with each cell of S, added up
RECURSIVE SharedCandidates(_, _, _)
SharedCandidates(cand, c, S) ==
    IF S = { } THEN 0
    ELSE LET x == CHOOSE y \in S : TRUE
         IN count_ones(BitAnd(cand[c[1] * 9 + c[2]], cand[x[1] * 9 + x[2]]))
                + SharedCandidates(cand, c, S \ { x })

\* C29: calculate_impact(row, col) is the sum, over the distinct other empty
\* cells that share a row, a column or a box with (row, col), each counted
\* once, of the number of candidates the two cells have in common
C29_ImpactCountsEachPeerOnce ==
    BoardUntouched =>
        \A c \in EmptyOf(board) :
            calculate_impact(board, candidates, c[1], c[2])
                = SharedCandidates(candidates, c, PeersOf(c) \cap EmptyOf(board))

-----------------------------------------------------------------------------
(* An empty cell that no digit fits.                                       *)

\* the empty cells of the initial puzzle in which no digit can be placed
DeadCells ==
    { c \in EmptyOf(Board_new(grid.value)) :
        \A num \in 1..9 :
            ~ is_valid_placement(Board_new(grid.value), c[1], c[2], num) }

\* C30: if some empty cell of the initial puzzle has an empty candidate set,
\* the first cell of the selector's list is such a cell, and solve() returns
\* Err(InvalidBoard) without starting a branch task and without changing the
\* working board
C30_DeadCellRejectedAtOnce ==
    DeadCells # { } =>
        /\ find_empty_cells(board, candidates) # << >>
        /\ find_empty_cells(board, candidates)[1] \in DeadCells
        /\ \A c \in DeadCells : CandidateSet_is_empty(candidates[c[1] * 9 + c[2]])
        /\ cpc # "fanout"
        /\ Tasks = { }
        /\ board = Board_new(grid.value)
        /\ Returned => result = "Err"

C30_Witness ==
    /\ Returned
    /\ result = "Err"
    /\ DeadCells # { }
    /\ DeadCells # EmptyOf(board)
    /\ \E c \in EmptyOf(board) \ DeadCells :
          /\ c[1] * 9 + c[2] < CHOOSE k \in { x[1] * 9 + x[2] : x \in DeadCells } : TRUE
          /\ ~ CandidateSet_is_empty(candidates[c[1] * 9 + c[2]])

-----------------------------------------------------------------------------
(* The candidate array.                                                    *)

\* the digits 1..9 that a candidate set holds
DigitsOf(s) == { n \in 1..9 : has_candidate(s, n) }

\* C31: after Solver::new the candidate set of every empty cell of the puzzle
\* holds digit n exactly when n does not occur in the cell's row, column or
\* box of the initial puzzle, the set of every filled cell is empty, and
\* neither solve() nor a branch task ever modifies the array
C31_CandidatesAreInitialAndFixed ==
    /\ [] \A row \in 0..8, col \in 0..8 :
            LET s == candidates[row * 9 + col] IN
            IF grid.value[row][col] = 0
            THEN /\ s < 512
                 /\ DigitsOf(s) = { n \in 1..9 : Fits(grid.value, << row, col >>, n) }
            ELSE CandidateSet_is_empty(s)
    /\ [][candidates' = candidates]_vars

C31_Witness ==
    /\ Returned
    /\ result = "Ok"
    /\ board # Board_new(grid.value)
    /\ \E c \in EmptyCellsOf(grid.value), x \in EmptyCellsOf(grid.value) :
          /\ Cardinality(DigitsOf(candidates[c[1] * 9 + c[2]])) >= 2
          /\ Cardinality(DigitsOf(candidates[x[1] * 9 + x[2]])) = 1

-----------------------------------------------------------------------------
(* Termination of solve().                                                 *)

MaxTasks == 9

\* Solve_Begin and TaskSolve(t) are computations that wait for nothing: each
\* is enabled whenever its position is reached.  Their steps seen on the
\* positions alone:
Solve_Begin_returns ==
    cpc = "idle" /\ cpc' \in { "fanout", "returned" }

TaskSolve_returns(t) ==
    /\ t \in Tasks
    /\ tpc[t] = "running"
    /\ \E x \in { "solved", "done" } : tpc' = [tpc EXCEPT ![t] = x]

\* the thread that called solve() keeps running, and rayon runs every task
\* of the fan-out to its end
SpecLive ==
    /\ Init
    /\ [][Next]_vars
    /\ WF_cpc(Solve_Begin_returns)
    /\ \A t \in 1..MaxTasks :
          /\ WF_vars(t \in Tasks /\ TaskStart(t))
          /\ WF_tpc(TaskSolve_returns(t))
          /\ WF_vars(t \in Tasks /\ TaskFetchOr(t))
          /\ WF_vars(t \in Tasks /\ TaskSend(t))
    /\ WF_vars(Solve_Join)

Larger(a, b) == IF a > b THEN a ELSE b

\* the search of one branch with the greatest number of
\* try_solve_with_value frames that are on the stack at one time:
\* [ok, depth]
RECURSIVE search_depth(_, _, _, _, _)
RECURSIVE depth_nums(_, _, _, _, _)
search_depth(start_row, start_col, value, b, ss) ==
    LET b1 == Board_set(b, start_row, start_col, value)
        s1 == IF ss.some THEN update_masks(ss, start_row, start_col, value)
              ELSE ss
        next == find_next_empty(b1)
    IN IF next.some
       THEN LET r == CHOOSE x \in { depth_nums(1, next.row, next.col, b1, s1) } :
                         TRUE
            IN [ok |-> r.ok, depth |-> r.depth + 1]
       ELSE [ok |-> is_valid_solution(b1), depth |-> 1]

depth_nums(num, next_row, next_col, b, ss) ==
    IF num > 9 THEN [ok |-> FALSE, depth |-> 0]
    ELSE IF is_valid(b, ss, next_row, next_col, num)
    THEN LET r == CHOOSE x \in { search_depth(next_row, next_col, num, b, ss) } :
                      TRUE
         IN IF r.ok THEN r
            ELSE LET q == CHOOSE y \in { depth_nums(num + 1, next_row, next_col,
                                                     b, ss) } : TRUE
                 IN [ok |-> q.ok, depth |-> Larger(r.depth, q.depth)]
    ELSE depth_nums(num + 1, next_row, next_col, b, ss)

\* C32: solve() terminates: the recursion of a branch is never deeper than
\* the number of empty cells, every branch task that has started finishes,
\* and the fan-out returns to the coordinator, which returns
C32_SolveTerminates ==
    /\ [] \A t \in Tasks :
            tpc[t] = "running" =>
                search_depth(sel[1], sel[2], sorted_candidates[t], board,
                             simd_solver).depth <= Cardinality(EmptyOf(board))
    /\ \A t \in 1..MaxTasks :
            (t \in Tasks /\ tpc[t] = "running")
                ~> (t \in Tasks /\ tpc[t] = "done")
    /\ (cpc = "fanout") ~> FanOutFinished
    /\ <> Returned

C32_Witness ==
    /\ Returned
    /\ FannedOut
    /\ Cardinality(EmptyCellsOf(grid.value)) >= 3
    /\ \E t \in Tasks :
          search_depth(sel[1], sel[2], sorted_candidates[t],
                       Board_new(grid.value), simd_solver).depth
              = Cardinality(EmptyCellsOf(grid.value))
    /\ \E t \in Tasks : DeadEnd(t)

-----------------------------------------------------------------------------
(* The working board after a failed solve().                               *)

\* C33: when solve() returns Err the working board is as it was when the
\* call began: get_solution() returns the input puzzle, not a board that a
\* branch has partly filled
C33_ErrLeavesBoard ==
    (Returned /\ result = "Err") =>
        /\ board = entry_board
        /\ board = Board_new(grid.value)
        /\ get_solution = grid.value

C33_Witness ==
    /\ Returned
    /\ result = "Err"
    /\ FannedOut
    /\ \E t \in Tasks :
          /\ DeadEnd(t)
          /\ Cardinality({ k \in 0..80 : tboard[t][k] # board[k] }) >= 1
    /\ get_solution = grid.value

-----------------------------------------------------------------------------
(* solve() called again after a success.                                   *)

\* C34: a solve() call made after a call that returned Ok(S) returns Ok(S)
\* again and leaves the working board and has_unique_solution() as they were
C34_SolveAgainIsIdempotent ==
    /\ [][ (cpc = "returned" /\ result = "Ok" /\ cpc' = "idle") =>
              /\ board' = Board_new(retboard)
              /\ entry_board' = board' ]_vars
    /\ [][ (calls >= 1 /\ IsValidGrid(to_vec(entry_board))) =>
              /\ board' = board
              /\ has_unique_solution' = has_unique_solution
              /\ cpc' = "returned" =>
                    /\ result' = "Ok"
                    /\ retboard' = to_vec(entry_board) ]_vars

C34_Witness ==
    /\ Returned
    /\ calls >= 1
    /\ result = "Ok"
    /\ retboard = to_vec(entry_board)
    /\ retboard # grid.value
    /\ has_unique_solution
    /\ board = entry_board

-----------------------------------------------------------------------------
(* The size of the board cache.                                            *)

\* the step is an add_to_cache or add_to_cache_with_timeout call that got
\* the mutex
IsCacheInsert ==
    /\ cache_ops' = cache_ops + 1
    /\ \/ cache_last'.op = "add_to_cache"
       \/ cache_last'.op = "add_to_cache_with_timeout" /\ cache_last'.ret = "Ok"

\* C35: whatever the sequence of initialize_cache, add_to_cache,
\* add_to_cache_with_timeout and get_from_cache calls, the cache never holds
\* more than CACHE_SIZE boards; an add on a full cache drops the board at the
\* back and then inserts at the front
C35_CacheIsBounded ==
    /\ [] (Len(cache) <= CacheCapacity)
    /\ [][ (IsCacheInsert /\ Len(cache) = CacheCapacity) =>
              cache' = << cache_last'.board >>
                           \o SubSeq(cache, 1, CacheCapacity - 1) ]_vars

C35_Witness ==
    /\ Len(cache) = CacheCapacity
    /\ cache_fill = GenerationThreshold
    /\ \A i \in 1..Len(cache) : cache[i] \in AddedGrids
    /\ cache_last.op \in { "add_to_cache", "add_to_cache_with_timeout" }
    /\ cache[1] = cache_last.board

-----------------------------------------------------------------------------
(* fetch_from_api (api.rs).  What the server and the network do is an      *)
(* input: a request fails in send(), or its body does not parse as an      *)
(* ApiResponse, or it parses and carries a list of grids.  One iteration   *)
(* of the retry loop is one step.                                          *)

MAX_RETRIES == 3

\* what HTTP_CLIENT.get(API_URL).send() and response.json() can give
ApiResponses ==
    { [kind |-> "send_error"], [kind |-> "json_error"] }
        \cup { [kind |-> "parsed", grids |-> gs] :
                 gs \in { << >>, << TestBoard >> }
                            \cup { << g, TestBoard >> : g \in GeneratedGrids } }

\* `if let Ok(api_response)` and `if let Some(board)` both match
HasBoard(r) == r.kind = "parsed" /\ r.grids # << >>

\* the sleep before a request: 100 * 2^retry ms from the second one on
backoff(n) == IF n > 0 THEN 100 * Pow2(n) ELSE 0

InitRequest ==
    /\ \E a \in Archs : SolverIdle(a)
    /\ ValidatorIdle
    /\ EngineIdle
    /\ DriverIdle
    /\ CandidatesIdle
    /\ CacheIdle
    /\ BenchIdle
    /\ RateIdle
    /\ GeneratorIdle
    /\ RequestIdle
    /\ LocksIdle

\* fetch_from_api() is called: `for retry in 0..MAX_RETRIES` starts
Api_call ==
    /\ apc = "idle"
    /\ apc' = "loop"
    /\ retry' = 0
    /\ UNCHANGED << api_responses, api_ret, arch, solverVars, outsideRequest >>

\* faulty variant: a response with a board does not end the loop
\* (sensitivity of C36)
Api_request_goes_on(r) ==
    /\ apc = "loop"
    /\ retry < MAX_RETRIES
    /\ api_responses' = Append(api_responses,
                               [response |-> r, slept |-> backoff(retry)])
    /\ retry' = retry + 1
    /\ UNCHANGED << apc, api_ret, arch, solverVars, outsideRequest >>

\* one iteration: the sleep, the request, and the match on its result
Api_request(r) ==
    /\ apc = "loop"
    /\ retry < MAX_RETRIES
    /\ api_responses' = Append(api_responses,
                               [response |-> r, slept |-> backoff(retry)])
    /\ IF HasBoard(r)
       THEN /\ api_ret' = [ret |-> "Ok", board |-> Head(r.grids)]
            /\ apc' = "returned"
            /\ retry' = retry
       ELSE /\ retry' = retry + 1
            /\ UNCHANGED << apc, api_ret >>
    /\ UNCHANGED << arch, solverVars, outsideRequest >>

\* the range is exhausted: Err("API requests exhausted".into())
Api_exhausted ==
    /\ apc = "loop"
    /\ retry >= MAX_RETRIES
    /\ api_ret' = [ret |-> "Err", err |-> "ApiError"]
    /\ apc' = "returned"
    /\ UNCHANGED << retry, api_responses, arch, solverVars, outsideRequest >>

NextRequest ==
    \/ Api_call
    \/ \E r \in ApiResponses : Api_request(r)
    \/ Api_exhausted

SpecRequest == InitRequest /\ [][NextRequest]_vars

\* C36: fetch_from_api makes at most MAX_RETRIES requests; the first
\* response that parses and carries a grid ends the call, which returns that
\* response's first grid and makes no further request; after MAX_RETRIES
\* requests without such a response the call returns Err
C36_FirstGoodResponseWins ==
    /\ [] (Len(api_responses) <= MAX_RETRIES)
    /\ [] (\A i \in 1..Len(api_responses) :
              HasBoard(api_responses[i].response) =>
                  /\ i = Len(api_responses)
                  /\ apc = "returned"
                  /\ api_ret = [ret |-> "Ok",
                                board |-> api_responses[i].response.grids[1]])
    /\ [] (apc = "returned" =>
              \/ /\ api_ret.ret = "Ok"
                 /\ api_responses # << >>
                 /\ HasBoard(api_responses[Len(api_responses)].response)
              \/ /\ api_ret = [ret |-> "Err", err |-> "ApiError"]
                 /\ Len(api_responses) = MAX_RETRIES
                 /\ \A i \in 1..MAX_RETRIES :
                       ~ HasBoard(api_responses[i].response))
    /\ [][ apc = "returned" => api_responses' = api_responses ]_vars
    /\ [][ ( /\ apc = "loop"
             /\ Len(api_responses) = MAX_RETRIES
             /\ ~ HasBoard(api_responses[MAX_RETRIES].response) ) =>
               (apc' = "returned" /\ api_ret'.ret = "Err") ]_vars

C36_Witness ==
    /\ apc = "returned"
    /\ Len(api_responses) = MAX_RETRIES
    /\ api_responses[1].response.kind = "send_error"
    /\ api_responses[2].response = [kind |-> "parsed", grids |-> << >>]
    /\ Len(api_responses[3].response.grids) = 2
    /\ api_ret.board # TestBoard

-----------------------------------------------------------------------------
(* fetch_multiple_boards (api.rs) called on its own: any count, any cache. *)
(* Its two loops are the steps Bench_fetch_cached and Bench_fetch_generate *)
(* above, where bpc = "solve" is the position after its return.            *)

\* what BOARD_CACHE can hold when the call begins
CacheContents ==
    UNION { [1..n -> AddedGrids] : n \in 0..CacheCapacity }

InitFetchMultiple ==
    /\ \E a \in Archs : SolverIdle(a)
    /\ ValidatorIdle
    /\ EngineIdle
    /\ DriverIdle
    /\ CandidatesIdle
    /\ BenchIdle
    /\ RateIdle
    /\ GeneratorIdle
    /\ RequestIdle
    /\ LocksIdle
    /\ cache \in CacheContents
    /\ cache_lock = "free"
    /\ cache_fill = 0
    /\ cache_last = [op |-> "none"]
    /\ cache_ops = 0

\* fetch_multiple_boards(n): `boards` is created empty
FetchMultiple_call(n) ==
    /\ bpc = "idle"
    /\ board_count' = n
    /\ boards' = << >>
    /\ bpc' = "fetch_cached"
    /\ UNCHANGED << prefetch, attempts, max_attempts, successful_fetches,
                    solved_boards, bnext, bevents, bresult, cacheVars, arch,
                    solverVars, outsideApi >>

NextFetchMultiple ==
    \/ \E n \in 0..MaxBoards : FetchMultiple_call(n)
    \/ Bench_fetch_cached
    \/ Bench_fetch_generate

SpecFetchMultiple == InitFetchMultiple /\ [][NextFetchMultiple]_vars

\* C37: whatever the count (zero included) and whatever the cache holds,
\* fetch_multiple_boards(count) returns at most count boards
C37_AtMostCountBoards ==
    bpc = "solve" => Len(boards) <= board_count

-----------------------------------------------------------------------------
(* The three mutexes of api.rs under concurrent calls of fetch_new_board,  *)
(* prefetch_boards and fetch_multiple_boards.  A step takes a mutex, gives *)
(* up on one after the time-out of try_lock_for, drops the guards a task   *)
(* holds, or ends an await.  What the cache holds, how much time has       *)
(* passed and what the API answers are inputs.                             *)

ApiTasks == { 1, 2 }

ApiFunctions == { "fetch_new_board", "prefetch_boards", "fetch_multiple_boards" }

Mutexes == { "BOARD_CACHE", "BOARD_GENERATOR", "LAST_REQUEST" }

\* the positions at which a task calls lock(), which waits without limit
LockPositions == { "init_generator", "init_cache", "add" }

\* the positions at which a task calls try_lock_for(1 s)
TryLockPositions == { "get", "limit", "relimit", "add_timeout", "local" }

\* the positions at which a task is suspended in sleep().await or in
\* fetch_from_api().await
AwaitPositions == { "sleep", "request" }

\* faulty variant: initialize_cache takes BOARD_CACHE first (sensitivity of
\* C38)
wanted_cache_first(pos) ==
    CASE pos = "init_generator" -> "BOARD_CACHE"
      [] pos = "init_cache" -> "BOARD_GENERATOR"
      [] pos \in { "add", "get", "add_timeout" } -> "BOARD_CACHE"
      [] pos \in { "limit", "relimit" } -> "LAST_REQUEST"
      [] pos = "local" -> "BOARD_GENERATOR"

\* the mutex a task asks for at a position
wanted(pos) ==
    CASE pos = "init_generator" -> "BOARD_GENERATOR"
      [] pos \in { "init_cache", "add", "get", "add_timeout" } -> "BOARD_CACHE"
      [] pos \in { "limit", "relimit" } -> "LAST_REQUEST"
      [] pos = "local" -> "BOARD_GENERATOR"

\* the position of a task once it has the mutex it asked for
locked(pos) ==
    CASE pos = "init_generator" -> "init_cache"
      [] pos = "init_cache" -> "init_fill"
      [] pos = "add" -> "adding"
      [] pos = "add_timeout" -> "adding"
      [] pos = "get" -> "getting"
      [] pos = "limit" -> "limited"
      [] pos = "relimit" -> "relimited"
      [] pos = "local" -> "generating"

\* the guards a task holds
Held(t) == { m \in Mutexes : mutex[m] = t }

\* `while ... < count && attempts < max_attempts`, and the choice between
\* the API and the generator
loop_test(r) ==
    IF r.got < r.count /\ r.attempts < r.max_attempts
    THEN [r EXCEPT !.pc = IF r.attempts % 2 = 0 THEN "request" ELSE "local"]
    ELSE [r EXCEPT !.pc = "done"]

\* `attempts += 1` and the sleep after every second attempt
after_attempt(r) ==
    IF (r.attempts + 1) % 2 = 0
    THEN [r EXCEPT !.attempts = r.attempts + 1, !.pc = "sleep"]
    ELSE loop_test([r EXCEPT !.attempts = r.attempts + 1])

\* a board was obtained from the API or from the generator
with_board(r) ==
    CASE r.fn = "fetch_new_board" -> [r EXCEPT !.pc = "done"]
      [] r.fn = "prefetch_boards" -> [r EXCEPT !.pc = "add"]
      [] r.fn = "fetch_multiple_boards" ->
             after_attempt([r EXCEPT !.got = r.got + 1])

\* get_from_cache() returned None
cache_miss(r) ==
    IF r.fn = "fetch_new_board"
    THEN [r EXCEPT !.pc = "limit"]
    ELSE loop_test([r EXCEPT !.attempts = 0,
                             !.max_attempts = (r.count - r.got) * 2])

\* get_from_cache() returned a board
cache_hit(r) ==
    IF r.fn = "fetch_new_board"
    THEN [r EXCEPT !.pc = "done"]
    ELSE [r EXCEPT !.got = r.got + 1,
                   !.pc = IF r.got + 1 >= r.count THEN "done" ELSE "get"]

InitLocks ==
    /\ \E a \in Archs : SolverIdle(a)
    /\ ValidatorIdle
    /\ EngineIdle
    /\ DriverIdle
    /\ CandidatesIdle
    /\ CacheIdle
    /\ BenchIdle
    /\ RateIdle
    /\ GeneratorIdle
    /\ RequestIdle
    /\ api_tasks = [t \in ApiTasks |->
                       [fn |-> "none", pc |-> "idle", count |-> 0,
                        attempts |-> 0, max_attempts |-> 0, got |-> 0]]
    /\ mutex = [m \in Mutexes |-> 0]

\* a task calls one of the three functions
Task_call(t, f, n) ==
    /\ api_tasks[t].pc = "idle"
    /\ LET r == [api_tasks[t] EXCEPT !.fn = f, !.count = n]
       IN api_tasks' = [api_tasks EXCEPT ![t] =
              CASE f = "fetch_new_board" -> [r EXCEPT !.pc = "init_generator"]
                [] f = "prefetch_boards" ->
                       loop_test([r EXCEPT !.max_attempts = n * 2])
                [] f = "fetch_multiple_boards" -> [r EXCEPT !.pc = "get"]]
    /\ UNCHANGED << mutex, arch, solverVars, outsideLocks >>

\* lock() or try_lock_for() returns the guard
Task_lock(t) ==
    /\ api_tasks[t].pc \in LockPositions \cup TryLockPositions
    /\ mutex[wanted(api_tasks[t].pc)] = 0
    /\ mutex' = [mutex EXCEPT ![wanted(api_tasks[t].pc)] = t]
    /\ api_tasks' = [api_tasks EXCEPT ![t].pc = locked(api_tasks[t].pc)]
    /\ UNCHANGED << arch, solverVars, outsideLocks >>

\* try_lock_for() returns None: another task kept the mutex for a second
Task_timeout(t) ==
    /\ api_tasks[t].pc \in TryLockPositions
    /\ mutex[wanted(api_tasks[t].pc)] \notin { 0, t }
    /\ LET r == api_tasks[t]
       IN api_tasks' = [api_tasks EXCEPT ![t] =
              CASE r.pc = "get" -> cache_miss(r)
                [] r.pc \in { "limit", "relimit" } -> [r EXCEPT !.pc = "local"]
                [] r.pc = "add_timeout" -> [r EXCEPT !.pc = "done"]
                [] r.pc = "local" ->
                       IF r.fn = "fetch_new_board"
                       THEN [r EXCEPT !.pc = "done"]
                       ELSE after_attempt(r)]
    /\ UNCHANGED << mutex, arch, solverVars, outsideLocks >>

\* the work under the guards, up to the point where they are dropped
Task_unlock(t) ==
    /\ api_tasks[t].pc \in { "init_fill", "getting", "limited", "relimited",
                             "adding", "generating" }
    /\ mutex' = [m \in Mutexes |-> IF mutex[m] = t THEN 0 ELSE mutex[m]]
    /\ LET r == api_tasks[t]
       IN \E hit \in BOOLEAN, early \in BOOLEAN :
             api_tasks' = [api_tasks EXCEPT ![t] =
                 CASE r.pc = "init_fill" -> [r EXCEPT !.pc = "get"]
                   [] r.pc = "getting" ->
                          IF hit THEN cache_hit(r) ELSE cache_miss(r)
                   [] r.pc = "limited" ->
                          [r EXCEPT !.pc = IF early THEN "sleep" ELSE "request"]
                   [] r.pc = "relimited" -> [r EXCEPT !.pc = "request"]
                   [] r.pc = "adding" ->
                          IF r.fn = "fetch_new_board"
                          THEN [r EXCEPT !.pc = "done"]
                          ELSE after_attempt([r EXCEPT !.got = r.got + 1])
                   [] r.pc = "generating" -> with_board(r)]
    /\ UNCHANGED << arch, solverVars, outsideLocks >>

\* sleep() or fetch_from_api() completes
Task_resume(t) ==
    /\ api_tasks[t].pc \in AwaitPositions
    /\ LET r == api_tasks[t]
       IN \E ok \in BOOLEAN :
             api_tasks' = [api_tasks EXCEPT ![t] =
                 CASE r.pc = "sleep" ->
                          IF r.fn = "fetch_new_board"
                          THEN [r EXCEPT !.pc = "relimit"]
                          ELSE loop_test(r)
                   [] r.pc = "request" ->
                          IF ~ ok THEN [r EXCEPT !.pc = "local"]
                          ELSE IF r.fn = "fetch_new_board"
                          THEN [r EXCEPT !.pc = "add_timeout"]
                          ELSE with_board(r)]
    /\ UNCHANGED << mutex, arch, solverVars, outsideLocks >>

NextLocks ==
    \/ \E t \in ApiTasks, f \in ApiFunctions, n \in 0..MaxBoards :
          Task_call(t, f, n)
    \/ \E t \in ApiTasks : Task_lock(t)
    \/ \E t \in ApiTasks : Task_timeout(t)
    \/ \E t \in ApiTasks : Task_unlock(t)
    \/ \E t \in ApiTasks : Task_resume(t)

SpecLocks == InitLocks /\ [][NextLocks]_vars

\* some task that is inside a call takes a step
Task_progress ==
    \E t \in ApiTasks :
        \/ Task_lock(t)
        \/ Task_timeout(t)
        \/ Task_unlock(t)
        \/ Task_resume(t)

\* t waits in lock() for a mutex that u holds
WaitsFor(t, u) ==
    /\ api_tasks[t].pc \in LockPositions
    /\ mutex[wanted(api_tasks[t].pc)] = u

\* the order in which initialize_cache nests the mutexes
LockRank(m) ==
    CASE m = "BOARD_GENERATOR" -> 1
      [] m = "BOARD_CACHE" -> 2
      [] m = "LAST_REQUEST" -> 3

\* C38: concurrent calls of fetch_new_board, prefetch_boards and
\* fetch_multiple_boards never deadlock: while a call is under way some task
\* can take a step and no set of tasks wait for each other's mutexes, a task that asks for a mutex while it holds another asks
\* in one fixed order (so no cycle can form), and no task holds a mutex
\* while it sleeps or waits for the API
C38_NoDeadlock ==
    /\ (\E t \in ApiTasks : api_tasks[t].pc \notin { "idle", "done" }) =>
           ENABLED Task_progress
    /\ \A S \in SUBSET ApiTasks :
          S # {} => \E t \in S : \A u \in S : ~ WaitsFor(t, u)
    /\ \A t \in ApiTasks :
          api_tasks[t].pc \in LockPositions \cup TryLockPositions =>
              \A h \in Held(t) : LockRank(h) < LockRank(wanted(api_tasks[t].pc))
    /\ \A t \in ApiTasks :
          api_tasks[t].pc \in AwaitPositions \cup { "idle", "done" } =>
              Held(t) = {}

C38_Witness ==
    /\ api_tasks[1].pc = "init_cache"
    /\ Held(1) = { "BOARD_GENERATOR" }
    /\ api_tasks[2].pc = "adding"
    /\ api_tasks[2].fn = "prefetch_boards"
    /\ Held(2) = { "BOARD_CACHE" }

-----------------------------------------------------------------------------
(* The puzzles of BoardGenerator::generate.                                *)

\* C39: the puzzle generate() returns has exactly one valid completion, its
\* solution; in remove_numbers a cell stays empty only if the board still
\* has a single completion, and a removal that is not kept leaves the board
\* as it was
C39_PuzzleHasOneCompletion ==
    /\ [] (gpc \in { "remove", "done" } => CompletionsOf(gboard) = { gsolution })
    /\ [][ (gpc = "remove" /\ removed' = removed) => gboard' = gboard ]_vars

C39_Witness ==
    /\ gpc = "done"
    /\ Cardinality(EmptyCellsOf(gboard)) = 3
    /\ Cardinality(unique_solutions) = 2
    /\ Len(positions_seen) = 4


\* C40: the number of empty cells of the puzzle generate() returns lies in
\* the range of its difficulty label, and is the remove_count that was drawn
C40_EmptyCellsMatchDifficulty ==
    gpc = "done" =>
        /\ Cardinality(EmptyCellsOf(gboard)) \in cells_to_remove(gdifficulty)
        /\ Cardinality(EmptyCellsOf(gboard)) = remove_count

====
